---- MODULE Spec2Model ----
(***************************************************************************)
(* Process-scheduler simulator: the RoundRobin and CFS scheduler state     *)
(* machines (scheduler crate) and the Processor driver with its process    *)
(* threads (processor crate).                                              *)
(*                                                                         *)
(* Option<T> is modelled as a sequence of length at most one:              *)
(* None = <<>>, Some(x) = <<x>>.                                           *)
(***************************************************************************)
EXTENDS Integers, Sequences, FiniteSets, TLC

None == <<>>
Some(x) == <<x>>

Min2(a, b) == IF a <= b THEN a ELSE b

\* usize values above the integers of the model: usize::MAX - k is written
\* -(k + 1), the value a wrapping counter shows.
usize_MAX == 0 - 1
I32_MAX == 2147483647

\* `x as i32` for a usize x: the low 32 bits read in two's complement.
\* The low 32 bits of usize::MAX - k are those of the i32 -(k + 1).
as_i32(x) ==
    IF x < 0 THEN x
    ELSE IF x > I32_MAX THEN x - I32_MAX - I32_MAX - 2
    ELSE x

\* The element of a one-element set: Only({F(x) : x \in {e}}) is F(e) with
\* e evaluated once.
Only(S) == CHOOSE x \in S : TRUE

(***************************************************************************)
(* ProcessState (scheduler.rs): Ready | Running | Waiting {event}.         *)
(***************************************************************************)
Ready == [tag |-> "Ready", event |-> None]
Running == [tag |-> "Running", event |-> None]
Waiting(event) == [tag |-> "Waiting", event |-> event]

\* A fresh PCB that does not start from the priority and the zero timings
\* it is given.
PCB_new_inherits(pid, state, timings, priority) ==
    [pid |-> pid, state |-> state, timings |-> <<pid - 1, 0, 0>>,
     priority |-> 0, sleep |-> 0, vruntime |-> 0]

\* PCB::new: a fresh PCB has sleep 0 (and, for CFS, vruntime 0).  The
\* RoundRobin PCB has no vruntime field; it stays 0 there.
PCB_new(pid, state, timings, priority) ==
    [pid |-> pid, state |-> state, timings |-> timings,
     priority |-> priority, sleep |-> 0, vruntime |-> 0]

\* The pattern `Waiting {event: Some(_)}` that the queues' loops test.
IsEventWaiter(process) ==
    process.state.tag = "Waiting" /\ process.state.event # None

\* SchedulingDecision, as one record shape: timeslice carries the Run
\* timeslice or the Sleep amount.
Run(pid, timeslice) == [kind |-> "Run", pid |-> pid, timeslice |-> timeslice]
Sleep(amount) == [kind |-> "Sleep", pid |-> 0, timeslice |-> amount]
Deadlock == [kind |-> "Deadlock", pid |-> 0, timeslice |-> 0]
Panic == [kind |-> "Panic", pid |-> 0, timeslice |-> 0]
Done == [kind |-> "Done", pid |-> 0, timeslice |-> 0]
\* No decision: the call aborted (a Rust panic) before returning one.
Aborted == [kind |-> "Abort", pid |-> 0, timeslice |-> 0]

\* SyscallResult.
Pid(pid) == [kind |-> "Pid", pid |-> pid]
Success == [kind |-> "Success", pid |-> 0]
NoRunningProcess == [kind |-> "NoRunningProcess", pid |-> 0]

\* StopReason and Syscall.
Syscall(name, arg) == [name |-> name, arg |-> arg]
StopSyscall(syscall, remaining) ==
    [kind |-> "Syscall", syscall |-> syscall, remaining |-> remaining]
Expired == [kind |-> "Expired", syscall |-> Syscall("None", 0), remaining |-> 0]

\* StopReason::set_remaining: only a Syscall reason carries a remaining.
set_remaining(reason, remaining) ==
    IF reason.kind = "Syscall" THEN [reason EXCEPT !.remaining = remaining]
    ELSE reason

\* What a scheduler call hands back: the new scheduler state, the value
\* returned, and whether the call aborted instead of returning.
Ret(s, out) == [s |-> s, out |-> out, abort |-> FALSE]
Abort(s, out) == [s |-> s, out |-> out, abort |-> TRUE]

(***************************************************************************)
(* Sequence helpers for Vec / VecDeque.                                    *)
(***************************************************************************)
push_back(q, x) == Append(q, x)
push_front(q, x) == <<x>> \o q

\* The two orders the schedulers sort by: waiting_queue by sleep
\* (sort_by_key), the CFS ready_queue by PCB::partial_cmp (vruntime, then pid).
Less(order, a, b) ==
    IF order = "sleep" THEN a.sleep < b.sleep
    ELSE IF a.vruntime = b.vruntime THEN a.pid < b.pid
    ELSE a.vruntime < b.vruntime

\* Insert x into the sorted sequence q after every element that is not
\* greater than x (what a stable sort does with a later equal element).
RECURSIVE InsertSorted(_, _, _)
InsertSorted(q, x, order) ==
    IF q = <<>> THEN <<x>>
    ELSE IF Less(order, x, Head(q)) THEN <<x>> \o q
    ELSE <<Head(q)>> \o InsertSorted(Tail(q), x, order)

\* slice::sort_by / sort_by_key: a stable sort.
RECURSIVE StableSort(_, _)
StableSort(q, order) ==
    IF q = <<>> THEN <<>>
    ELSE Only({InsertSorted(sorted, q[Len(q)], order) :
                 sorted \in {StableSort(SubSeq(q, 1, Len(q) - 1), order)}})

\* waiting_queue.sort_by_key(|process| process.sleep)
sort_by_sleep(q) == StableSort(q, "sleep")
\* ready_queue.make_contiguous().sort_by(|a, b| a.partial_cmp(b).unwrap())
sort_by_vruntime(q) == StableSort(q, "vruntime")

\* A wake-pass that moves the PCBs without setting their state.
MarkReady_keep_state(q) == q

\* A wake test that looks at the sleep alone.
Wakes_any(process) == process.sleep <= 0

\* The wake-pass `waiting_queue.retain(...)`: every PCB that is not waiting
\* on an event and has sleep <= 0 goes to the back of ready_queue, Ready.
Wakes(process) == ~IsEventWaiter(process) /\ process.sleep <= 0
Stays(process) == ~Wakes(process)
MarkReady(q) == [i \in 1..Len(q) |-> [q[i] EXCEPT !.state = Ready]]
\* A wake-pass that copies the PCBs it readies and removes none.
WakePassCode_copies(s) ==
    [s EXCEPT !.ready_queue = @ \o MarkReady(SelectSeq(s.waiting_queue, Wakes))]

WakePassCode(s) ==
    [s EXCEPT !.ready_queue = @ \o MarkReady(SelectSeq(s.waiting_queue, Wakes)),
              !.waiting_queue = SelectSeq(s.waiting_queue, Stays)]

\* The loops that charge `amount` to every ready and waiting PCB; a sleeper
\* also has it taken from its sleep.
ChargeOne(process, amount) ==
    IF IsEventWaiter(process)
    THEN [process EXCEPT !.timings[1] = @ + amount]
    ELSE [process EXCEPT !.timings[1] = @ + amount, !.sleep = @ - amount]
\* Ready PCBs that are charged nothing while another process runs.
ChargeReady_none(q, amount) == q

ChargeReady(q, amount) == [i \in 1..Len(q) |-> [q[i] EXCEPT !.timings[1] = @ + amount]]
\* A charge of the waiting PCBs that counts down the sleeps and leaves the
\* totals.
ChargeWaiting_sleep_only(q, amount) ==
    [i \in 1..Len(q) |->
        IF IsEventWaiter(q[i]) THEN q[i] ELSE [q[i] EXCEPT !.sleep = @ - amount]]

ChargeWaiting(q, amount) == [i \in 1..Len(q) |-> ChargeOne(q[i], amount)]

\* A charge that leaves the unit of the syscall out of total.
ChargeSyscall_short(process, granted, remaining) ==
    [process EXCEPT !.timings[3] = @ + (granted - remaining - 1),
                    !.timings[2] = @ + 1,
                    !.timings[1] = @ + (granted - remaining - 1)]

\* The running process's own charge on a syscall stop.
ChargeSyscall(process, granted, remaining) ==
    [process EXCEPT !.timings[3] = @ + (granted - remaining - 1),
                    !.timings[2] = @ + 1,
                    !.timings[1] = @ + (granted - remaining)]

(***************************************************************************)
(* RoundRobin (schedulers/round_robin.rs).  The scheduler is one record;   *)
(* policy tells RoundRobin from CFS, whose extra fields stay at their      *)
(* initial values under RoundRobin.                                        *)
(***************************************************************************)
RoundRobin_new(timeslice, minimum_remaining_timeslice) ==
    [policy |-> "RoundRobin",
     ready_queue |-> <<>>,
     waiting_queue |-> <<>>,
     current_process |-> None,
     next_pid |-> 1,
     timeslice |-> timeslice,
     minimum_remaining_timeslice |-> minimum_remaining_timeslice,
     panic |-> FALSE,
     remaining |-> timeslice,
     sleep |-> 0,
     cpu_time |-> 0,
     minimum_vruntime |-> 0]

\* next(), lines 88-98: a pending Sleep amount is applied to waiting_queue.
ApplySleep(s) ==
    IF s.sleep # 0
    THEN [s EXCEPT !.sleep = 0,
                   !.waiting_queue = ChargeWaiting(@, s.sleep)]
    ELSE s

\* The sleep of the last PCB of waiting_queue that does not wait on an
\* event: the longest sleep, not the shortest.
FirstSleeperAmount_last(q) ==
    LET sleepers == {i \in 1..Len(q) : ~IsEventWaiter(q[i])} IN
    IF sleepers = {} THEN 0
    ELSE q[CHOOSE i \in sleepers : \A j \in sleepers : j <= i].sleep

\* next(), lines 116-123: the sleep of the first PCB of waiting_queue that
\* does not wait on an event, 0 when there is none.
RECURSIVE FirstSleeperAmount(_)
FirstSleeperAmount(q) ==
    IF q = <<>> THEN 0
    ELSE IF IsEventWaiter(Head(q)) THEN FirstSleeperAmount(Tail(q))
    ELSE Head(q).sleep

\* An idle scheduler that gives up without looking for a sleeper.
IdleDecision_no_sleepers(s) == Ret(s, Deadlock)

\* next(), lines 115-130: nothing current, nothing ready, something waiting.
IdleDecision(s) ==
    LET amount == FirstSleeperAmount(s.waiting_queue) IN
    IF amount = 0 THEN Ret(s, Deadlock)
    ELSE Ret([s EXCEPT !.sleep = amount], Sleep(amount))

\* next(), lines 132-147: pop the front of ready_queue, else keep current,
\* else Done.  NonZeroUsize::new(remaining).unwrap() aborts on 0.
Dispatch(s) ==
    IF s.ready_queue # <<>>
    THEN LET process == [Head(s.ready_queue) EXCEPT !.state = Running]
             s1 == [s EXCEPT !.ready_queue = Tail(@),
                             !.current_process = Some(process)]
         IN IF s.remaining = 0 THEN Abort(s1, Aborted)
            ELSE Ret(s1, Run(process.pid, s.remaining))
    ELSE IF s.current_process # None
    THEN IF s.remaining = 0 THEN Abort(s, Aborted)
         ELSE Ret(s, Run(s.current_process[1].pid, s.remaining))
    ELSE Ret(s, Done)

\* A next() that forgets the latch once it has reported it.
RR_next_forgets(s) ==
    IF s.panic THEN Ret([s EXCEPT !.panic = FALSE], Panic)
    ELSE Dispatch(WakePassCode(ApplySleep(s)))

RR_next(s) ==
    IF s.panic THEN Ret(s, Panic)
    ELSE LET s1 == [s EXCEPT !.waiting_queue = sort_by_sleep(@)]
             s2 == WakePassCode(ApplySleep(s1))
         IN IF s2.current_process = None /\ s2.ready_queue = <<>>
               /\ s2.waiting_queue # <<>>
            THEN IdleDecision(s2)
            ELSE Dispatch(s2)

\* The part every syscall arm of stop repeats: charge the elapsed time
\* (granted - remaining) to the ready and waiting PCBs, then the wake-pass.
RR_charge_and_wake(s, remaining) ==
    LET amount == s.remaining - remaining IN
    WakePassCode([s EXCEPT !.ready_queue = ChargeReady(@, amount),
                           !.waiting_queue = ChargeWaiting(@, amount)])

\* A reschedule that puts the caller at the front whatever is left of its
\* quantum.
RR_reschedule_front(s, process, remaining) ==
    [s EXCEPT !.ready_queue = push_front(@, process),
              !.remaining = IF remaining >= s.minimum_remaining_timeslice
                            THEN remaining ELSE s.timeslice]

\* Fork and Signal, lines 196-203 and 346-353: the caller goes back to
\* ready_queue, at the front with its remaining when remaining >=
\* minimum_remaining_timeslice, else at the back with a fresh timeslice.
RR_reschedule(s, process, remaining) ==
    IF remaining >= s.minimum_remaining_timeslice
    THEN [s EXCEPT !.ready_queue = push_front(@, process),
                   !.remaining = remaining]
    ELSE [s EXCEPT !.ready_queue = push_back(@, process),
                   !.remaining = s.timeslice]

\* A Fork that hands out the lowest pid above the number of live PCBs, so
\* the pid of a process that exited is given again.
RR_stop_Fork_reuses(s, priority, remaining) ==
    LET live == Len(s.current_process) + Len(s.ready_queue) + Len(s.waiting_queue)
        process == PCB_new(live + 1, Ready, <<0, 0, 0>>, priority)
        s1 == RR_charge_and_wake([s EXCEPT !.next_pid = live + 2], remaining)
        s2 == [s1 EXCEPT !.ready_queue = push_back(@, process)]
    IN IF s.current_process # None
       THEN LET current_process ==
                    ChargeSyscall([s.current_process[1] EXCEPT !.state = Ready],
                                  s.remaining, remaining)
            IN Ret(RR_reschedule([s2 EXCEPT !.current_process = None],
                                 current_process, remaining),
                   Pid(process.pid))
       ELSE Ret(s2, Pid(process.pid))

RR_stop_Fork(s, priority, remaining) ==
    LET process == PCB_new(s.next_pid, Ready, <<0, 0, 0>>, priority)
        s1 == RR_charge_and_wake([s EXCEPT !.next_pid = @ + 1], remaining)
        s2 == [s1 EXCEPT !.ready_queue = push_back(@, process)]
    IN IF s.current_process # None
       THEN LET current_process ==
                    ChargeSyscall([s.current_process[1] EXCEPT !.state = Ready],
                                  s.remaining, remaining)
            IN Ret(RR_reschedule([s2 EXCEPT !.current_process = None],
                                 current_process, remaining),
                   Pid(process.pid))
       ELSE Ret(s2, Pid(process.pid))

\* A Sleep that only yields: the caller goes to the back of ready_queue.
RR_stop_Sleep_yields(s, amount, remaining) ==
    LET s1 == RR_charge_and_wake([s EXCEPT !.current_process = None], remaining)
        process == ChargeSyscall([s.current_process[1] EXCEPT !.state = Ready],
                                 s.remaining, remaining)
    IN Ret([s1 EXCEPT !.ready_queue = push_back(@, process),
                      !.remaining = s.timeslice],
           Success)

RR_stop_Sleep(s, amount, remaining) ==
    LET s1 == RR_charge_and_wake([s EXCEPT !.current_process = None], remaining)
        process == ChargeSyscall([s.current_process[1] EXCEPT
                                      !.state = Waiting(None),
                                      !.sleep = as_i32(amount)],
                                 s.remaining, remaining)
    IN Ret([s1 EXCEPT !.waiting_queue = push_back(@, process),
                      !.remaining = s.timeslice],
           Success)

\* A Wait that finds its event already signalled: the caller stays ready.
RR_stop_Wait_remembered(s, event, remaining) ==
    LET s1 == RR_charge_and_wake([s EXCEPT !.current_process = None], remaining)
        process == ChargeSyscall([s.current_process[1] EXCEPT !.state = Ready],
                                 s.remaining, remaining)
    IN Ret([s1 EXCEPT !.ready_queue = push_back(@, process),
                      !.remaining = s.timeslice],
           Success)

RR_stop_Wait(s, event, remaining) ==
    LET s1 == RR_charge_and_wake([s EXCEPT !.current_process = None], remaining)
        process == ChargeSyscall([s.current_process[1] EXCEPT
                                      !.state = Waiting(Some(event))],
                                 s.remaining, remaining)
    IN Ret([s1 EXCEPT !.waiting_queue = push_back(@, process),
                      !.remaining = s.timeslice],
           Success)

\* A Signal that wakes the waiters on every event.
SignalPass_any_event(s, signal) ==
    LET Sleeper(process) == ~IsEventWaiter(process)
    IN [s EXCEPT !.ready_queue =
                     @ \o MarkReady(SelectSeq(s.waiting_queue, IsEventWaiter)),
                 !.waiting_queue = SelectSeq(s.waiting_queue, Sleeper)]

\* Signal, lines 309-324: the retain that moves the waiters on `signal`.
SignalPass(s, signal) ==
    LET Hit(process) == IsEventWaiter(process) /\ process.state.event[1] = signal
        Miss(process) == ~Hit(process)
    IN [s EXCEPT !.ready_queue = @ \o MarkReady(SelectSeq(s.waiting_queue, Hit)),
                 !.waiting_queue = SelectSeq(s.waiting_queue, Miss)]

\* A Signal whose caller is charged as if preempted: the whole elapsed time
\* goes to execute and no syscall is counted.
RR_stop_Signal_as_expired(s, signal, remaining) ==
    LET amount == s.remaining - remaining
        s1 == [s EXCEPT !.current_process = None,
                        !.ready_queue = ChargeReady(@, amount),
                        !.waiting_queue = ChargeWaiting(@, amount)]
        s2 == WakePassCode(SignalPass(s1, signal))
        process == [s.current_process[1] EXCEPT
                        !.state = Ready,
                        !.timings[3] = @ + amount,
                        !.timings[1] = @ + amount]
    IN Ret(RR_reschedule(s2, process, remaining), Success)

RR_stop_Signal(s, signal, remaining) ==
    LET amount == s.remaining - remaining
        s1 == [s EXCEPT !.current_process = None,
                        !.ready_queue = ChargeReady(@, amount),
                        !.waiting_queue = ChargeWaiting(@, amount)]
        s2 == WakePassCode(SignalPass(s1, signal))
        process == ChargeSyscall([s.current_process[1] EXCEPT !.state = Ready],
                                 s.remaining, remaining)
    IN Ret(RR_reschedule(s2, process, remaining), Success)

\* A latch that looks at ready_queue only.
ExitPanics_ready_only(s) ==
    s.current_process[1].pid = 1 /\ s.ready_queue # <<>>

\* Exit, lines 358-361: PID 1 leaving others behind latches panic.
ExitPanics(s) ==
    s.current_process[1].pid = 1
    /\ (s.ready_queue # <<>> \/ s.waiting_queue # <<>>)

\* An Exit that charges its caller as the other syscalls do and leaves it
\* in place.
RR_stop_Exit_charged(s, remaining) ==
    LET s0 == IF ExitPanics(s) THEN [s EXCEPT !.panic = TRUE] ELSE s
        process == ChargeSyscall(s.current_process[1], s.remaining, remaining)
        s1 == RR_charge_and_wake([s0 EXCEPT !.current_process = Some(process)],
                                 remaining)
    IN Ret([s1 EXCEPT !.remaining = s.timeslice], Success)

RR_stop_Exit(s, remaining) ==
    LET s0 == IF ExitPanics(s) THEN [s EXCEPT !.panic = TRUE] ELSE s
        s1 == RR_charge_and_wake([s0 EXCEPT !.current_process = None], remaining)
    IN Ret([s1 EXCEPT !.remaining = s.timeslice], Success)

\* An Expired stop that does not start a fresh quantum.
RR_stop_Expired_keeps_remaining(s) ==
    LET process == [s.current_process[1] EXCEPT
                        !.state = Ready,
                        !.timings[3] = @ + s.remaining,
                        !.timings[1] = @ + s.remaining]
        s1 == WakePassCode([s EXCEPT
                  !.ready_queue = ChargeReady(@, s.remaining),
                  !.waiting_queue = ChargeWaiting(@, s.remaining)])
    IN Ret([s1 EXCEPT !.ready_queue = push_back(@, process),
                      !.current_process = None],
           Success)

RR_stop_Expired(s) ==
    LET process == [s.current_process[1] EXCEPT
                        !.state = Ready,
                        !.timings[3] = @ + s.remaining,
                        !.timings[1] = @ + s.remaining]
        s1 == WakePassCode([s EXCEPT
                  !.ready_queue = ChargeReady(@, s.remaining),
                  !.waiting_queue = ChargeWaiting(@, s.remaining)])
    IN Ret([s1 EXCEPT !.remaining = s.timeslice,
                      !.ready_queue = push_back(@, process),
                      !.current_process = None],
           Success)

\* A stop arm that charges the current process computes
\* self.remaining - remaining - 1 in usize, and Exit computes
\* self.remaining - remaining for each queued PCB: the subtraction aborts
\* when it would go below zero.
Underflows(s, reason) ==
    /\ reason.kind = "Syscall"
    /\ IF reason.remaining < 0 THEN TRUE
       ELSE IF reason.syscall.name = "Exit"
       THEN /\ s.remaining - reason.remaining < 0
            /\ (s.ready_queue # <<>> \/ s.waiting_queue # <<>>)
       ELSE s.remaining - reason.remaining - 1 < 0

RR_stop(s, reason) ==
    IF reason.kind = "Syscall"
    THEN IF s.current_process = None /\ s.next_pid # 1
         THEN Ret(s, NoRunningProcess)
         ELSE IF reason.syscall.name = "Fork"
         THEN IF s.current_process # None /\ Underflows(s, reason)
              THEN Abort(s, Success)
              ELSE RR_stop_Fork(s, reason.syscall.arg, reason.remaining)
         ELSE IF s.current_process = None \/ Underflows(s, reason)
         THEN Abort(s, Success)
         ELSE IF reason.syscall.name = "Sleep"
         THEN RR_stop_Sleep(s, reason.syscall.arg, reason.remaining)
         ELSE IF reason.syscall.name = "Wait"
         THEN RR_stop_Wait(s, reason.syscall.arg, reason.remaining)
         ELSE IF reason.syscall.name = "Signal"
         THEN RR_stop_Signal(s, reason.syscall.arg, reason.remaining)
         ELSE RR_stop_Exit(s, reason.remaining)
    ELSE IF s.current_process = None THEN Abort(s, Success)
    ELSE RR_stop_Expired(s)

\* list(): current first, then ready_queue, then waiting_queue.
list(s) == s.current_process \o s.ready_queue \o s.waiting_queue

(***************************************************************************)
(* CFS (schedulers/cfs.rs).                                                *)
(***************************************************************************)
CFS_new(cpu_time, minimum_remaining_timeslice) ==
    [policy |-> "CFS",
     ready_queue |-> <<>>,
     waiting_queue |-> <<>>,
     current_process |-> None,
     next_pid |-> 1,
     timeslice |-> cpu_time,
     minimum_remaining_timeslice |-> minimum_remaining_timeslice,
     panic |-> FALSE,
     remaining |-> cpu_time,
     sleep |-> 0,
     cpu_time |-> cpu_time,
     minimum_vruntime |-> 0]

wake(s) ==
    [s EXCEPT !.ready_queue = @ \o MarkReady(SelectSeq(s.waiting_queue, Wakes)),
              !.waiting_queue = SelectSeq(s.waiting_queue, Stays)]

update_ready_timings(s, remaining) ==
    [s EXCEPT !.ready_queue = ChargeReady(@, s.remaining - remaining)]

update_waiting_timings(s, remaining) ==
    [s EXCEPT !.waiting_queue = ChargeWaiting(@, s.remaining - remaining)]

reschedule_process(s, remaining, process) ==
    IF remaining >= s.minimum_remaining_timeslice
    THEN [s EXCEPT !.ready_queue = push_front(sort_by_vruntime(@), process),
                   !.remaining = remaining]
    ELSE [s EXCEPT !.ready_queue = sort_by_vruntime(push_back(@, process)),
                   !.remaining = s.timeslice]

SeqMin(q, least) ==
    IF q = <<>> THEN least
    ELSE LET m == CHOOSE i \in 1..Len(q) : \A j \in 1..Len(q) : q[i] <= q[j]
         IN Min2(q[m], least)

\* An update that is never made: minimum_vruntime stays as it was.
update_minimum_vruntime_never(s, current) == s

\* An update that leaves the forking parent out of the minimum.
update_minimum_vruntime_others(s, current) ==
    LET all_vruntime ==
            [i \in 1..Len(s.ready_queue) |-> s.ready_queue[i].vruntime]
            \o [i \in 1..Len(s.waiting_queue) |-> s.waiting_queue[i].vruntime]
    IN [s EXCEPT !.minimum_vruntime = SeqMin(all_vruntime, s.minimum_vruntime)]

update_minimum_vruntime(s, current) ==
    LET all_vruntime ==
            [i \in 1..Len(s.ready_queue) |-> s.ready_queue[i].vruntime]
            \o [i \in 1..Len(s.waiting_queue) |-> s.waiting_queue[i].vruntime]
    IN [s EXCEPT !.minimum_vruntime = SeqMin(all_vruntime, current)]

\* self.timeslice = NonZeroUsize::new(cpu_time / divisor).unwrap(): aborts
\* on a zero divisor and on a zero quotient.
QuantumAborts(s, divisor) == divisor = 0 \/ s.cpu_time \div divisor = 0
SetQuantum(s, divisor) == [s EXCEPT !.timeslice = s.cpu_time \div divisor]

\* A charge that adds to vruntime only what it adds to execute.
CFS_ChargeSyscall_execute(process, granted, remaining) ==
    [ChargeSyscall(process, granted, remaining) EXCEPT
         !.vruntime = @ + (granted - remaining - 1)]

\* The running process's own charge in CFS: vruntime grows by
\* granted - remaining.
CFS_ChargeSyscall(process, granted, remaining) ==
    [ChargeSyscall(process, granted, remaining) EXCEPT
         !.vruntime = @ + (granted - remaining)]

CFS_next(s) ==
    IF s.panic THEN Ret(s, Panic)
    ELSE LET s1 == [s EXCEPT !.waiting_queue = sort_by_sleep(@)]
             s2 == IF s1.sleep # 0
                   THEN ApplySleep([s1 EXCEPT !.ready_queue = sort_by_vruntime(@)])
                   ELSE s1
             s3 == wake(s2)
         IN IF s3.current_process = None /\ s3.ready_queue = <<>>
               /\ s3.waiting_queue # <<>>
            THEN IdleDecision(s3)
            ELSE Dispatch(s3)

CFS_stop_Fork(s, priority, remaining) ==
    LET process == PCB_new(s.next_pid, Ready, <<0, 0, 0>>, priority)
        s1 == wake(update_waiting_timings(update_ready_timings(
                  [s EXCEPT !.next_pid = @ + 1], remaining), remaining))
        s2 == IF process.pid = 1
              THEN [s1 EXCEPT !.ready_queue = push_back(@, process)]
              ELSE s1
    IN IF s.current_process # None
       THEN LET current_process ==
                    CFS_ChargeSyscall([s.current_process[1] EXCEPT !.state = Ready],
                                      s.remaining, remaining)
                s3 == update_minimum_vruntime(
                          [s2 EXCEPT !.current_process = None],
                          current_process.vruntime)
                child == [process EXCEPT !.vruntime = s3.minimum_vruntime]
                s4 == [s3 EXCEPT !.ready_queue = push_back(@, child)]
                divisor == Len(s4.ready_queue) + 1
            IN IF QuantumAborts(s4, divisor) THEN Abort(s4, Success)
               ELSE LET s5 == SetQuantum(s4, divisor)
                    IN Ret(reschedule_process(s5, Min2(s5.timeslice, remaining),
                                              current_process),
                           Pid(process.pid))
       ELSE Ret(s2, Pid(process.pid))

\* Sleep and Wait share everything but the state the caller is left in.
CFS_stop_Block(s, state, sleep, remaining) ==
    LET s1 == wake(update_waiting_timings(update_ready_timings(
                  [s EXCEPT !.current_process = None], remaining), remaining))
        divisor == Len(s1.ready_queue)
        process == CFS_ChargeSyscall([s.current_process[1] EXCEPT
                                          !.state = state, !.sleep = sleep],
                                     s.remaining, remaining)
    IN IF QuantumAborts(s1, divisor) THEN Abort(s1, Success)
       ELSE LET s2 == SetQuantum(s1, divisor)
            IN Ret([s2 EXCEPT !.waiting_queue = push_back(@, process),
                              !.remaining = s2.timeslice,
                              !.ready_queue = sort_by_vruntime(@)],
                   Success)

CFS_stop_Sleep(s, amount, remaining) ==
    CFS_stop_Block(s, Waiting(None), as_i32(amount), remaining)

CFS_stop_Wait(s, event, remaining) ==
    CFS_stop_Block(s, Waiting(Some(event)), s.current_process[1].sleep, remaining)

CFS_stop_Signal(s, signal, remaining) ==
    LET s1 == update_waiting_timings(update_ready_timings(
                  [s EXCEPT !.current_process = None], remaining), remaining)
        s2 == wake(SignalPass(s1, signal))
        divisor == Len(s2.ready_queue) + 1
        process == CFS_ChargeSyscall([s.current_process[1] EXCEPT !.state = Ready],
                                     s.remaining, remaining)
    IN IF QuantumAborts(s2, divisor) THEN Abort(s2, Success)
       ELSE Ret(reschedule_process(SetQuantum(s2, divisor), remaining, process),
                Success)

CFS_stop_Exit(s, remaining) ==
    LET process == s.current_process[1]
        s0 == IF ExitPanics(s) THEN [s EXCEPT !.panic = TRUE] ELSE s
        s1 == wake(update_waiting_timings(update_ready_timings(
                  [s0 EXCEPT !.current_process = None], remaining), remaining))
        divisor == Len(s1.ready_queue)
    IN IF process.pid # 1 /\ QuantumAborts(s1, divisor) THEN Abort(s1, Success)
       ELSE LET s2 == IF process.pid # 1 THEN SetQuantum(s1, divisor) ELSE s1
            IN Ret([s2 EXCEPT !.remaining = s2.timeslice,
                              !.ready_queue = sort_by_vruntime(@)],
                   Success)

CFS_stop_Expired(s) ==
    LET process == [s.current_process[1] EXCEPT
                        !.state = Ready,
                        !.timings[3] = @ + s.remaining,
                        !.timings[1] = @ + s.remaining,
                        !.vruntime = @ + s.remaining]
        s1 == wake([s EXCEPT
                  !.ready_queue = ChargeReady(@, s.remaining),
                  !.waiting_queue = ChargeWaiting(@, s.remaining)])
        divisor == Len(s1.ready_queue) + 1
    IN IF QuantumAborts(s1, divisor) THEN Abort(s1, Success)
       ELSE LET s2 == SetQuantum(s1, divisor)
            IN Ret([s2 EXCEPT !.remaining = s2.timeslice,
                              !.ready_queue = sort_by_vruntime(push_back(@, process)),
                              !.current_process = None],
                   Success)

CFS_stop(s, reason) ==
    IF reason.kind = "Syscall"
    THEN IF s.current_process = None /\ s.next_pid # 1
         THEN Ret(s, NoRunningProcess)
         ELSE IF reason.syscall.name = "Fork"
         THEN IF s.current_process # None /\ Underflows(s, reason)
              THEN Abort(s, Success)
              ELSE CFS_stop_Fork(s, reason.syscall.arg, reason.remaining)
         ELSE IF s.current_process = None \/ Underflows(s, reason)
         THEN Abort(s, Success)
         ELSE IF reason.syscall.name = "Sleep"
         THEN CFS_stop_Sleep(s, reason.syscall.arg, reason.remaining)
         ELSE IF reason.syscall.name = "Wait"
         THEN CFS_stop_Wait(s, reason.syscall.arg, reason.remaining)
         ELSE IF reason.syscall.name = "Signal"
         THEN CFS_stop_Signal(s, reason.syscall.arg, reason.remaining)
         ELSE CFS_stop_Exit(s, reason.remaining)
    ELSE IF s.current_process = None THEN Abort(s, Success)
    ELSE CFS_stop_Expired(s)

(***************************************************************************)
(* Empty (schedulers/empty.rs): a unit struct whose methods are            *)
(* unimplemented!(), a panic.  It has no fields; those of the record stay  *)
(* at the values given here.                                               *)
(***************************************************************************)
Empty ==
    [policy |-> "Empty",
     ready_queue |-> <<>>,
     waiting_queue |-> <<>>,
     current_process |-> None,
     next_pid |-> 1,
     timeslice |-> 0,
     minimum_remaining_timeslice |-> 0,
     panic |-> FALSE,
     remaining |-> 0,
     sleep |-> 0,
     cpu_time |-> 0,
     minimum_vruntime |-> 0]

Empty_stop(s, reason) == Abort(s, Success)
Empty_next(s) == Abort(s, Aborted)

(***************************************************************************)
(* The public factories (scheduler/src/lib.rs): each ignores its           *)
(* arguments and returns Empty.                                            *)
(***************************************************************************)
round_robin(timeslice, minimum_remaining_timeslice) == Empty
priority_queue(timeslice, minimum_remaining_timeslice) == Empty
cfs(cpu_time, minimum_remaining_timeslice) == Empty

(***************************************************************************)
(* The Scheduler trait: dispatch on the implementing type.                 *)
(***************************************************************************)
stop(s, reason) ==
    IF s.policy = "RoundRobin" THEN RR_stop(s, reason)
    ELSE IF s.policy = "CFS" THEN CFS_stop(s, reason)
    ELSE Empty_stop(s, reason)

next(s) ==
    IF s.policy = "RoundRobin" THEN RR_next(s)
    ELSE IF s.policy = "CFS" THEN CFS_next(s)
    ELSE Empty_next(s)

(***************************************************************************)
(* The Processor (processor/src/lib.rs): the scheduler, the current_process*)
(* slot, the remaining counter, the logs and the running flag are the      *)
(* fields of one record.                                                   *)
(***************************************************************************)
Processor_new(scheduler) ==
    [scheduler |-> scheduler,
     current_process |-> None,
     remaining |-> 1,
     logs |-> <<>>,
     running |-> TRUE]

\* AtomicUsize::fetch_sub(1): wraps below zero; -1 stands for usize::MAX.
fetch_sub(value) == IF value = 0 THEN -1 ELSE value - 1

\* ProcessInfo::new(pid, state, timings, priority, extra); extra is the
\* vruntime under CFS and the empty string (here None) under RoundRobin.
ProcessInfo(s, process) ==
    [pid |-> process.pid, state |-> process.state, timings |-> process.timings,
     priority |-> process.priority,
     extra |-> IF s.policy = "CFS" THEN Some(process.vruntime) ELSE None]

\* The HashMap built from scheduler.list(): a later entry of the list
\* replaces an earlier one with the same pid.
process_map(s) ==
    LET l == list(s)
        pids == {l[i].pid : i \in 1..Len(l)}
        last(pid) == CHOOSE i \in 1..Len(l) :
                        /\ l[i].pid = pid
                        /\ \A j \in 1..Len(l) : l[j].pid = pid => j <= i
    IN [pid \in pids |-> ProcessInfo(s, l[last(pid)])]

Log_new(decision, stop_reason, processes) ==
    [decision |-> decision, stop_reason |-> stop_reason, processes |-> processes]

\* An exec that tests the counter before it takes its unit: the process
\* is preempted one exec late.
Processor_exec_late(P) ==
    IF P.running
    THEN [P |-> [P EXCEPT !.remaining = fetch_sub(@)], out |-> P.remaining # 0]
    ELSE [P |-> P, out |-> TRUE]

\* An exec that takes no time from the quantum.
Processor_exec_uncounted(P) == [P |-> P, out |-> TRUE]

\* Processor::exec, lines 199-206: FALSE when the quantum is used up.
Processor_exec(P) ==
    IF P.running
    THEN LET r == fetch_sub(P.remaining)
         IN [P |-> [P EXCEPT !.remaining = r], out |-> r # 0]
    ELSE [P |-> P, out |-> TRUE]

\* Processor::stop, lines 279-282 (the notify_all is the caller's).
Processor_stop(P) == [P EXCEPT !.running = FALSE]

\* Processor::scheduler, lines 226-265: call next until it names a process
\* or ends the simulation, logging every decision.  decisions collects what
\* next returned; DrainStep is one turn of the loop, n what next returned.
RECURSIVE Drain(_, _), DrainStep(_, _, _)
Drain(P, decisions) ==
    IF ~(P.running /\ P.current_process = None)
    THEN [P |-> P, decisions |-> decisions, abort |-> FALSE]
    ELSE Only({DrainStep(P, decisions, n) : n \in {next(P.scheduler)}})

Logged(P, n) ==
    [P EXCEPT !.scheduler = n.s,
              !.logs = Append(@, Log_new(n.out, None, process_map(n.s)))]

DrainStep(P, decisions, n) ==
    IF n.abort
    THEN [P |-> [P EXCEPT !.scheduler = n.s],
          decisions |-> decisions, abort |-> TRUE]
    ELSE Only({Drain(IF n.out.kind = "Run"
                     THEN [L EXCEPT !.remaining = n.out.timeslice,
                                    !.current_process = Some(n.out.pid)]
                     ELSE IF n.out.kind = "Sleep" THEN L
                     ELSE Processor_stop(L),
                     Append(decisions, n.out)) : L \in {Logged(P, n)}})

\* An annotation that goes to the first entry of the log.
Annotate_first(logs, reason, result) ==
    IF Len(logs) > 0
    THEN [logs EXCEPT ![1].stop_reason = Some(<<reason, result>>)]
    ELSE logs

\* Processor::scheduler, lines 214-222: the (reason, result) pair is stored
\* in the last log entry.
Annotate(logs, reason, result) ==
    IF Len(logs) > 0
    THEN [logs EXCEPT ![Len(logs)].stop_reason = Some(<<reason, result>>)]
    ELSE logs

\* Processor::scheduler, lines 209-210: the running check and the
\* fetch_sub, made before the scheduler is locked.
scheduler_enter(P) ==
    IF P.running
    THEN [P |-> [P EXCEPT !.remaining = fetch_sub(@)], entered |-> TRUE]
    ELSE [P |-> P, entered |-> FALSE]

\* Processor::scheduler, lines 211-266: under the scheduler's lock.
\* r is what stop returned, d what the loop of next calls left.  A panic
\* in stop (line 213) poisons the scheduler's mutex; a panic in next (line
\* 227) also poisons the mutex of current_process, locked at line 224.
Drained(r, reason, d) ==
    [P |-> d.P, out |-> r.out, reason |-> reason, stopped |-> r.s,
     decisions |-> d.decisions, abort |-> d.abort,
     poison |-> IF d.abort THEN "both" ELSE "none"]

AfterStop(P, reason, r) ==
    IF r.abort
    THEN [P |-> [P EXCEPT !.scheduler = r.s], out |-> r.out, reason |-> reason,
          stopped |-> r.s, decisions |-> <<>>, abort |-> TRUE,
          poison |-> "scheduler"]
    ELSE Only({Drained(r, reason, d) :
                  d \in {Drain([P EXCEPT !.scheduler = r.s,
                                         !.logs = Annotate(@, reason, r.out),
                                         !.current_process = None],
                               <<>>)}})

StopWith(P, reason) ==
    Only({AfterStop(P, reason, r) : r \in {stop(P.scheduler, reason)}})

scheduler_locked(P, reason) == StopWith(P, set_remaining(reason, P.remaining))

(***************************************************************************)
(* Bounds and input domains.                                               *)
(***************************************************************************)
\* Threads the model has room for (pids 1..MaxPid); process actions and
\* forks the bodies of a freely chosen run issue in all.
MaxPid == 5
MaxOps == 4
MaxForks == 2

Pids == 1..MaxPid
Priorities == {0}
Events == {1, 2}
SleepAmounts == {0, 2, usize_MAX}

Exec == Syscall("Exec", 0)
Exit == Syscall("Exit", 0)
Syscalls ==
    {Syscall("Fork", p) : p \in Priorities}
    \cup {Syscall("Sleep", a) : a \in SleepAmounts}
    \cup {Syscall("Wait", e) : e \in Events}
    \cup {Syscall("Signal", e) : e \in Events}

\* The schedulers a freely chosen run is started with.
Configs ==
    {RoundRobin_new(ts, m) : ts \in {1, 2, 3}, m \in {0, 1}}
    \cup {CFS_new(c, 1) : c \in {2, 4}}

(***************************************************************************)
(* Process bodies.  A body is either free (its next action is any action)  *)
(* or a script, the list of the actions it issues; a fork carries the      *)
(* child's script.                                                         *)
(***************************************************************************)
Op(name, arg) == [name |-> name, arg |-> arg, body |-> <<>>]
Execs(n) == [i \in 1..n |-> Op("Exec", 0)]
ForkOp(body, priority) == [name |-> "Fork", arg |-> priority, body |-> body]
Free == [free |-> TRUE, ops |-> <<>>]
Script(ops) == [free |-> FALSE, ops |-> ops]

\* The root closures of the repository's scenarios; cfs_fairness is
\* single_worker with a second worker, sleeper_and_waiter is
\* fork_wait_sleep_signal with a second child that sleeps.
Scripts ==
    [single_process |-> Execs(5),
     example |-> Execs(4)
         \o <<ForkOp(Execs(2) \o <<Op("Wait", 1)>>, 0),
              Op("Sleep", 10), Op("Signal", 1), Op("Exec", 0)>>,
     wait |-> Execs(5) \o <<Op("Wait", 1)>>,
     signal_before_wait |-> Execs(5) \o <<Op("Signal", 1), Op("Wait", 1)>>,
     signal_before_wait_2 |->
         <<ForkOp(Execs(5) \o <<Op("Wait", 2)>>, 0),
           Op("Signal", 2), Op("Wait", 2), Op("Sleep", 10)>>,
     wait_2 |->
         <<ForkOp(Execs(5) \o <<Op("Wait", 2)>>, 0),
           Op("Sleep", 10), Op("Wait", 1), Op("Sleep", 10)>>,
     wait_3 |->
         <<ForkOp(Execs(5) \o <<Op("Wait", 1)>>, 0),
           ForkOp(Execs(5) \o <<Op("Wait", 1)>>, 0),
           ForkOp(Execs(5) \o <<Op("Wait", 2)>>, 0),
           Op("Sleep", 10), Op("Signal", 1), Op("Wait", 0), Op("Sleep", 10)>>,
     panic_exec |-> <<ForkOp(Execs(5), 0), Op("Exec", 0)>>,
     panic_sleep |-> <<ForkOp(<<Op("Sleep", 5)>>, 0), Op("Exec", 0)>>,
     panic_wait |-> <<ForkOp(<<Op("Wait", 1)>>, 0), Op("Exec", 0)>>,
     fork_wait_sleep_signal |->
         <<ForkOp(<<Op("Wait", 1)>>, 0),
           Op("Sleep", 5), Op("Signal", 1), Op("Sleep", 10)>>,
     workers |->
         <<ForkOp(<<Op("Wait", 1)>>, 0), ForkOp(<<Op("Wait", 1)>>, 0),
           ForkOp(<<Op("Wait", 2)>>, 0)>>
         \o Execs(10)
         \o <<Op("Signal", 1), Op("Signal", 2), Op("Sleep", 10)>>,
     senders |->
         <<ForkOp(<<Op("Wait", 1), Op("Signal", 2)>>, 0),
           ForkOp(<<Op("Wait", 2), Op("Signal", 3)>>, 0),
           ForkOp(<<Op("Wait", 3)>>, 0), ForkOp(<<Op("Wait", 3)>>, 0)>>
         \o Execs(10)
         \o <<Op("Signal", 1), Op("Sleep", 10)>>,
     single_worker |-> <<ForkOp(Execs(20), 5)>> \o Execs(30),
     cfs_fairness |->
         <<ForkOp(Execs(9), 5), ForkOp(Execs(9), 5)>> \o Execs(12),
     sleeper_and_waiter |->
         <<ForkOp(<<Op("Wait", 1)>>, 0), ForkOp(<<Op("Sleep", 2)>>, 0),
           Op("Sleep", 1), Op("Exec", 0), Op("Signal", 1), Op("Sleep", 10)>>]

ScriptNames == DOMAIN Scripts

\* The schedulers the scenarios are run with.
ScriptConfigs == {RoundRobin_new(2, 1), RoundRobin_new(3, 1), CFS_new(10, 1)}

\* The calls of the factories the runner makes (tests/mod.rs with its
\* default arguments, main.rs): the quantum and minimum_remaining_timeslice
\* each is given.
FactoryCalls ==
    [round_robin |-> [quantum |-> 2, minimum_remaining_timeslice |-> 1],
     priority_queue |-> [quantum |-> 3, minimum_remaining_timeslice |-> 1],
     cfs |-> [quantum |-> 10, minimum_remaining_timeslice |-> 1]]

FactoryNames == DOMAIN FactoryCalls

\* The scheduler the factory `name` returns for the runner's call.
FromFactory(name) ==
    LET call == FactoryCalls[name] IN
    IF name = "round_robin"
    THEN round_robin(call.quantum, call.minimum_remaining_timeslice)
    ELSE IF name = "priority_queue"
    THEN priority_queue(call.quantum, call.minimum_remaining_timeslice)
    ELSE cfs(call.quantum, call.minimum_remaining_timeslice)

(***************************************************************************)
(* State.                                                                  *)
(*   processor  the Processor record                                       *)
(*   pc         where each process thread is                               *)
(*   body       what is left of each thread's closure                      *)
(*   pending    the StopReason a thread is about to hand to the scheduler  *)
(*   child      the pid and the closure a forking thread is about to spawn *)
(*   trace      the actions each process has issued to a running processor *)
(*   budget     the actions and forks the free bodies may still issue      *)
(*   scenario   the name of the scenario run, "free" for a free run, the   *)
(*              name of the factory for a run of its scheduler             *)
(*   poisoned   the mutexes a panic has poisoned: "none", "scheduler"      *)
(*              or "both" (the scheduler's and that of current_process)    *)
(*   outcome    what Processor::run produced                               *)
(*   last       the last call of Processor::scheduler under the lock       *)
(***************************************************************************)
VARIABLES processor, pc, body, pending, child, trace, budget, scenario,
          poisoned, outcome, last

vars == <<processor, pc, body, pending, child, trace, budget, scenario,
          poisoned, outcome, last>>

NoChild == [pid |-> 0, body |-> Free]

InitThreads ==
    /\ pc = [t \in Pids |-> "none"]
    /\ pending = [t \in Pids |-> Expired]
    /\ child = [t \in Pids |-> NoChild]
    /\ trace = [t \in Pids |-> <<>>]
    /\ poisoned = "none"
    /\ outcome = [kind |-> "init", logs |-> <<>>]
    /\ last = None

InitFree ==
    /\ scenario = "free"
    /\ budget = [ops |-> MaxOps, forks |-> MaxForks]
    /\ processor \in {Processor_new(s) : s \in Configs}
    /\ body = [t \in Pids |-> Free]

InitScript ==
    /\ scenario \in ScriptNames
    /\ budget = [ops |-> 0, forks |-> 0]
    /\ processor \in {Processor_new(s) : s \in ScriptConfigs}
    /\ body = [t \in Pids |-> IF t = 1 THEN Script(Scripts[scenario]) ELSE Free]

\* A run of a scenario with the scheduler a public factory returns.
InitFactory ==
    /\ scenario \in FactoryNames
    /\ budget = [ops |-> 0, forks |-> 0]
    /\ processor = Processor_new(FromFactory(scenario))
    /\ body = [t \in Pids |->
                  IF t = 1 THEN Script(Scripts.single_process) ELSE Free]

Init == InitThreads /\ (InitFree \/ InitScript \/ InitFactory)

\* A notification that reaches no thread.
notify_none(pcs) == pcs

\* Condvar::notify_all: every thread blocked in wait() goes back to
\* re-acquire the mutex and re-test the loop condition of suspend.
notify_all(pcs) == [t \in Pids |-> IF pcs[t] = "wait" THEN "suspend" ELSE pcs[t]]

\* A record of one locked scheduler call, for the properties.
LastCall(t, before, c) ==
    Some([caller |-> t, reason |-> c.reason, result |-> c.out,
          before |-> before, stopped |-> c.stopped,
          decisions |-> c.decisions, abort |-> c.abort])

\* Processor::run, lines 165-196: the bootstrap Fork(0), then the root
\* thread is spawned.  c is what the scheduler call returned.
BootstrapReturn(c) ==
    /\ processor' = c.P
    /\ last' = LastCall(0, processor.scheduler, c)
    /\ IF c.abort \/ c.out.kind # "Pid" \/ c.out.pid # 1
       THEN /\ outcome' = [outcome EXCEPT !.kind = "panicked"]
            /\ pc' = pc
       ELSE /\ outcome' = [outcome EXCEPT !.kind = "running"]
            /\ pc' = [pc EXCEPT ![1] = "suspend"]

Bootstrap ==
    /\ outcome.kind = "init"
    /\ \E c \in {scheduler_locked(scheduler_enter(processor).P,
                                   StopSyscall(Syscall("Fork", 0), 0))} :
          BootstrapReturn(c)
    /\ UNCHANGED <<body, pending, child, trace, budget, scenario, poisoned>>

\* A suspend whose loop tests only that some process is current.
suspend_any_pid(P, t) == ~(P.running /\ P.current_process = None)

\* A suspend that never blocks.
suspend_never_waits(P, t) == TRUE

\* Process::suspend, lines 298-307.  The loop condition under the mutex:
\* the thread goes on when it is the current process or the processor
\* stopped, and blocks in Condvar::wait otherwise.
suspend_passes(P, t) == ~(P.running /\ P.current_process # Some(t))

\* A panic of thread t: that of the root thread is the panic of run
\* (join().unwrap()).
Crashed(t) ==
    /\ pc' = [pc EXCEPT ![t] = "panicked"]
    /\ outcome' = IF t = 1 THEN [outcome EXCEPT !.kind = "panicked"] ELSE outcome

\* lock().unwrap() and wait().unwrap() panic on a poisoned mutex.
Suspend(t) ==
    /\ pc[t] = "suspend"
    /\ IF poisoned = "both" THEN Crashed(t)
       ELSE /\ pc' = [pc EXCEPT ![t] = IF suspend_passes(processor, t)
                                       THEN "body" ELSE "wait"]
            /\ UNCHANGED outcome
    /\ UNCHANGED <<processor, body, pending, child, trace, budget, scenario,
                   poisoned, last>>

\* Condvar::wait may return without a notification.
SpuriousWake(t) ==
    /\ pc[t] = "wait"
    /\ pc' = [pc EXCEPT ![t] = "suspend"]
    /\ UNCHANGED <<processor, body, pending, child, trace, budget, scenario,
                   poisoned, outcome, last>>

\* The next action of thread t's closure: the head of its script (Exit at
\* its end), or any action within the budget for a free body.
FreeOps == {Op(sc.name, sc.arg) : sc \in Syscalls \cup {Exec, Exit}}

Offered(t) ==
    IF body[t].free THEN FreeOps
    ELSE IF body[t].ops = <<>> THEN {Op("Exit", 0)}
    ELSE {Head(body[t].ops)}

Offers(t, op) ==
    /\ op \in Offered(t)
    /\ (body[t].free /\ op.name # "Exit") => budget.ops > 0
    /\ (body[t].free /\ op.name = "Fork") => budget.forks > 0

Advance(t, op) ==
    /\ body' = IF body[t].free THEN body
               ELSE [body EXCEPT ![t].ops = IF @ = <<>> THEN @ ELSE Tail(@)]
    /\ budget' = [ops |-> IF body[t].free /\ op.name # "Exit"
                          THEN budget.ops - 1 ELSE budget.ops,
                  forks |-> IF body[t].free /\ op.name = "Fork"
                            THEN budget.forks - 1 ELSE budget.forks]
    /\ trace' = IF processor.running
                THEN [trace EXCEPT ![t] = Append(@, Syscall(op.name, op.arg))]
                ELSE trace

\* Process::exec, lines 310-317, up to the call of Processor::scheduler.
DoExec(t) ==
    /\ pc[t] = "body"
    /\ Offers(t, Op("Exec", 0))
    /\ Advance(t, Op("Exec", 0))
    /\ processor' = Processor_exec(processor).P
    /\ pc' = [pc EXCEPT ![t] = IF Processor_exec(processor).out
                               THEN "body" ELSE "preempt"]
    /\ UNCHANGED <<pending, child, scenario, poisoned, outcome, last>>

\* What a thread does with NoRunningProcess from a scheduler call that did
\* not enter: fork panics, exit ends the thread, the others suspend.
AfterNotEntered(t, name) ==
    IF name = "Fork" THEN Crashed(t)
    ELSE /\ pc' = [pc EXCEPT ![t] = IF name = "Exit" THEN "exited" ELSE "suspend"]
         /\ UNCHANGED outcome

\* Processor::scheduler, lines 209-210, for the Expired stop of exec.
Preempt(t) ==
    /\ pc[t] = "preempt"
    /\ processor' = scheduler_enter(processor).P
    /\ IF scheduler_enter(processor).entered
       THEN /\ pc' = [pc EXCEPT ![t] = "sched"]
            /\ pending' = [pending EXCEPT ![t] = Expired]
            /\ UNCHANGED outcome
       ELSE /\ AfterNotEntered(t, "Exec")
            /\ UNCHANGED pending
    /\ UNCHANGED <<body, child, trace, budget, scenario, poisoned, last>>

\* Process::fork / sleep / wait / signal / exit: the syscall is built and
\* Processor::scheduler is entered (lines 209-210).
DoSyscall(t, op) ==
    /\ pc[t] = "body"
    /\ op.name # "Exec"
    /\ Offers(t, op)
    /\ Advance(t, op)
    /\ processor' = scheduler_enter(processor).P
    /\ child' = [child EXCEPT ![t] =
                    [pid |-> 0,
                     body |-> IF body[t].free THEN Free ELSE Script(op.body)]]
    /\ IF scheduler_enter(processor).entered
       THEN /\ pc' = [pc EXCEPT ![t] = "sched"]
            /\ pending' = [pending EXCEPT ![t] =
                              StopSyscall(Syscall(op.name, op.arg), 0)]
            /\ UNCHANGED outcome
       ELSE /\ AfterNotEntered(t, op.name)
            /\ UNCHANGED pending
    /\ UNCHANGED <<scenario, poisoned, last>>

\* Processor::scheduler, lines 211-266, and what the caller does with the
\* result c: fork needs a Pid (else it panics), exit ends the thread.
SchedulerReturn(t, name, c) ==
    /\ processor' = c.P
    /\ last' = LastCall(t, processor.scheduler, c)
    /\ poisoned' = c.poison
    /\ IF c.abort
       THEN /\ Crashed(t)
            /\ UNCHANGED child
       ELSE IF name = "Fork" /\ c.out.kind # "Pid"
       THEN /\ pc' = [notify_all(pc) EXCEPT ![t] = "panicked"]
            /\ outcome' = IF t = 1
                          THEN [outcome EXCEPT !.kind = "panicked"]
                          ELSE outcome
            /\ UNCHANGED child
       ELSE /\ pc' = [notify_all(pc) EXCEPT ![t] =
                         IF name = "Fork" THEN "spawn"
                         ELSE IF name = "Exit" THEN "exited"
                         ELSE "suspend"]
            /\ child' = IF name = "Fork"
                        THEN [child EXCEPT ![t].pid = c.out.pid]
                        ELSE child
            /\ UNCHANGED outcome

SchedulerCall(t) ==
    /\ pc[t] = "sched"
    /\ IF poisoned # "none"
       THEN /\ Crashed(t)
            /\ UNCHANGED <<processor, child, poisoned, last>>
       ELSE \E c \in {scheduler_locked(processor, pending[t])} :
               SchedulerReturn(t, pending[t].syscall.name, c)
    /\ UNCHANGED <<body, pending, trace, budget, scenario>>

\* Process::fork, lines 330-343: the child's thread is spawned with its
\* closure; it starts in suspend, and so does the parent.
Spawn(t) ==
    /\ pc[t] = "spawn"
    /\ child[t].pid \in Pids
    /\ pc[child[t].pid] = "none"
    /\ pc' = [pc EXCEPT ![t] = "suspend", ![child[t].pid] = "suspend"]
    /\ body' = [body EXCEPT ![child[t].pid] = child[t].body]
    /\ UNCHANGED <<processor, pending, child, trace, budget, scenario,
                   poisoned, outcome, last>>

\* The end of a thread's closure, after its exit: the root thread returns
\* get_logs() (lines 272-277, which empties the log buffer) and run
\* returns it.
Finish(t) ==
    /\ pc[t] = "exited"
    /\ pc' = [pc EXCEPT ![t] = "done"]
    /\ IF t = 1
       THEN /\ outcome' = [kind |-> "returned", logs |-> processor.logs]
            /\ processor' = [processor EXCEPT !.logs = <<>>]
       ELSE UNCHANGED <<outcome, processor>>
    /\ UNCHANGED <<body, pending, child, trace, budget, scenario, poisoned, last>>

Next ==
    \/ Bootstrap
    \/ \E t \in Pids : Suspend(t)
    \/ \E t \in Pids : SpuriousWake(t)
    \/ \E t \in Pids : DoExec(t)
    \/ \E t \in Pids : Preempt(t)
    \/ \E t \in Pids : \E op \in Offered(t) : DoSyscall(t, op)
    \/ \E t \in Pids : SchedulerCall(t)
    \/ \E t \in Pids : Spawn(t)
    \/ \E t \in Pids : Finish(t)

Spec == Init /\ [][Next]_vars

\* One step of thread t other than a spurious wakeup.
Step(t) ==
    \/ Suspend(t)
    \/ DoExec(t)
    \/ Preempt(t)
    \/ \E op \in Offered(t) : DoSyscall(t, op)
    \/ SchedulerCall(t)
    \/ Spawn(t)
    \/ Finish(t)

\* The operating system schedules every thread that can take a step.
Fairness == WF_vars(Bootstrap) /\ \A t \in Pids : WF_vars(Step(t))

FairSpec == Spec /\ Fairness

(***************************************************************************)
(* The Scheduler trait driven directly: any sequence of stop and next      *)
(* calls on a fresh scheduler, as a caller other than the Processor may    *)
(* make them.  The scheduler is processor.scheduler; the thread variables  *)
(* are not used.                                                           *)
(***************************************************************************)
\* Calls made on one scheduler.
MaxCalls == 8

\* The schedulers the calls are made on.
ApiConfigs ==
    {RoundRobin_new(2, 1), RoundRobin_new(3, 2), RoundRobin_new(2, 0),
     CFS_new(4, 1)}

InitAPI ==
    /\ InitThreads
    /\ scenario = "api"
    /\ budget = [ops |-> MaxCalls, forks |-> 0]
    /\ processor \in {Processor_new(s) : s \in ApiConfigs}
    /\ body = [t \in Pids |-> Free]

\* The reasons a caller may pass: a syscall with any remaining up to the
\* timeslice granted, or Expired.
Reasons(s) ==
    {StopSyscall(sc, r) : sc \in Syscalls \cup {Exit}, r \in 0..s.remaining}
    \cup {Expired}

\* The PCB of pid in the scheduler s.
PCBOf(s, pid) ==
    LET l == list(s) IN l[CHOOSE i \in 1..Len(l) : l[i].pid = pid]

\* The accepted Sleep calls so far: for each pid that has slept, the amount
\* n of its latest Sleep and its total when that stop returned.
Slept(call, reason, r, before) ==
    LET old == IF last = None THEN {} ELSE last[1].asleep IN
    IF /\ call = "stop" /\ ~r.abort /\ r.out = Success
       /\ reason.kind = "Syscall" /\ reason.syscall.name = "Sleep"
    THEN {e \in old : e.pid # before.current_process[1].pid}
         \cup {[pid |-> before.current_process[1].pid,
                n |-> reason.syscall.arg,
                total |-> PCBOf(r.s, before.current_process[1].pid).timings[1]]}
    ELSE old

\* A record of one call: what was passed and returned, the scheduler before
\* and after, whether an earlier next had returned Panic, how many stop
\* calls returned since, the Sleep calls accepted so far and how many Fork
\* calls returned a pid.
ApiCall(call, reason, r, before) ==
    Some([call |-> call, reason |-> reason, out |-> r.out, before |-> before,
          after |-> r.s, abort |-> r.abort,
          asleep |-> Slept(call, reason, r, before),
          forks |-> (IF last = None THEN 0 ELSE last[1].forks)
                    + (IF call = "stop" /\ ~r.abort /\ r.out.kind = "Pid"
                       THEN 1 ELSE 0),
          seen_panic |-> IF last = None THEN FALSE
                         ELSE last[1].seen_panic
                              \/ (last[1].call = "next" /\ last[1].out = Panic),
          stops |-> IF last = None THEN 0
                    ELSE IF last[1].call = "next" /\ last[1].out = Panic
                         /\ ~last[1].seen_panic
                    THEN 0
                    ELSE IF last[1].call = "stop" /\ ~last[1].abort
                    THEN last[1].stops + 1
                    ELSE last[1].stops])

ApiReturn(call, reason, r) ==
    /\ processor' = [processor EXCEPT !.scheduler = r.s]
    /\ last' = ApiCall(call, reason, r, processor.scheduler)
    /\ poisoned' = IF r.abort THEN "scheduler" ELSE "none"
    /\ budget' = [budget EXCEPT !.ops = @ - 1]
    /\ UNCHANGED <<pc, body, pending, child, trace, scenario, outcome>>

\* A panic unwinds the caller: no call follows it.
ApiStop ==
    /\ poisoned = "none"
    /\ budget.ops > 0
    /\ \E reason \in Reasons(processor.scheduler) :
          \E r \in {stop(processor.scheduler, reason)} :
             ApiReturn("stop", reason, r)

ApiNext ==
    /\ poisoned = "none"
    /\ budget.ops > 0
    /\ \E r \in {next(processor.scheduler)} : ApiReturn("next", Expired, r)

NextAPI == ApiStop \/ ApiNext

SpecAPI == InitAPI /\ [][NextAPI]_vars

(***************************************************************************)
(* Properties.                                                             *)
(***************************************************************************)
\* Thread t is issuing a process action or is inside Processor::scheduler.
InAction(t) == pc[t] \in {"body", "preempt", "sched"}

\* C1: mutual exclusion on the simulated CPU.  While the processor is
\* running, a thread that issues process actions or is inside
\* Processor::exec / Processor::scheduler is the current process; so at
\* most one thread at a time does so, under every interleaving.
C1_MutualExclusion ==
    processor.running =>
        /\ \A t \in Pids : InAction(t) => processor.current_process = Some(t)
        /\ \A t, u \in Pids : InAction(t) /\ InAction(u) => t = u

\* A process is inside the scheduler while another is still spawning its
\* child and a third is blocked in suspend.
C1_Witness ==
    /\ processor.running
    /\ \E t, u, w \in Pids :
          /\ pc[t] = "sched" /\ processor.current_process = Some(t)
          /\ pc[u] = "spawn"
          /\ pc[w] = "wait"

\* The log so far: the Processor's buffer, or what run returned.
LogEntries == processor.logs \o outcome.logs

RunningPids(processes) ==
    {pid \in DOMAIN processes : processes[pid].state.tag = "Running"}

AllInState(q, tag) == \A i \in 1..Len(q) : q[i].state.tag = tag

\* The last locked scheduler call returned and its last decision was Run.
LastDecisionIsRun ==
    /\ last # None
    /\ ~last[1].abort
    /\ last[1].decisions # <<>>
    /\ last[1].decisions[Len(last[1].decisions)].kind = "Run"

\* C2: in every snapshot logged after a next() call, under RoundRobin and
\* under CFS, at most one PCB is Running; when the decision is Run{pid} the
\* Running PCB is pid, and in the scheduler that made the decision every
\* PCB of ready_queue is Ready and every PCB of waiting_queue is Waiting.
C2_Snapshots ==
    /\ \A i \in 1..Len(LogEntries) :
          /\ Cardinality(RunningPids(LogEntries[i].processes)) <= 1
          /\ LogEntries[i].decision.kind = "Run" =>
                RunningPids(LogEntries[i].processes) = {LogEntries[i].decision.pid}
    /\ LastDecisionIsRun =>
          /\ processor.scheduler.current_process # None
          /\ processor.scheduler.current_process[1].state = Running
          /\ processor.scheduler.current_process[1].pid
                = last[1].decisions[Len(last[1].decisions)].pid
          /\ AllInState(processor.scheduler.ready_queue, "Ready")
          /\ AllInState(processor.scheduler.waiting_queue, "Waiting")

\* A Run decision logged with a PCB in each of the three states, one of
\* them moved to ready_queue by a wake-pass.
C2_Witness ==
    /\ LastDecisionIsRun
    /\ processor.logs # <<>>
    /\ processor.logs[Len(processor.logs)].decision.kind = "Run"
    /\ processor.scheduler.ready_queue # <<>>
    /\ processor.scheduler.waiting_queue # <<>>
    /\ \E i \in 1..Len(processor.logs) : processor.logs[i].decision.kind = "Sleep"

\* The log holds exactly one terminal decision, its last entry.
IsTerminal(decision) == decision.kind \in {"Done", "Deadlock", "Panic"}

WellTerminated(logs) ==
    /\ logs # <<>>
    /\ IsTerminal(logs[Len(logs)].decision)
    /\ \A i \in 1..(Len(logs) - 1) : logs[i].decision.kind \in {"Run", "Sleep"}

\* C3: termination.  Every run with finite bodies returns, and the log it
\* returns ends with its only terminal decision, after Run and Sleep
\* decisions only.
C3_Termination == <>(outcome.kind = "returned" /\ WellTerminated(outcome.logs))

(***************************************************************************)
(* The sequential reading of a run: one process at a time, the current     *)
(* one, issues the next action of its body; nothing is concurrent.         *)
(***************************************************************************)
\* The scheduler the run was started with.
InitialScheduler ==
    IF processor.scheduler.policy = "CFS"
    THEN CFS_new(processor.scheduler.cpu_time,
                 processor.scheduler.minimum_remaining_timeslice)
    ELSE RoundRobin_new(processor.scheduler.timeslice,
                        processor.scheduler.minimum_remaining_timeslice)

\* Processor::scheduler as one call.
SeqCall(P, reason) ==
    IF P.running
    THEN scheduler_locked(scheduler_enter(P).P, reason).P
    ELSE P

\* One action of the current process.
SeqOp(P, op) ==
    IF op.name = "Exec"
    THEN IF Processor_exec(P).out THEN Processor_exec(P).P
         ELSE SeqCall(Processor_exec(P).P, Expired)
    ELSE SeqCall(P, StopSyscall(op, 0))

\* The processor after the actions the bodies issued, bodies[t] being the
\* actions of process t in order and idx[t] how many it has issued.
RECURSIVE SeqRun(_, _, _)
SeqRun(P, bodies, idx) ==
    IF ~P.running \/ P.current_process = None THEN P
    ELSE IF P.current_process[1] \notin DOMAIN bodies THEN P
    ELSE IF idx[P.current_process[1]] >= Len(bodies[P.current_process[1]]) THEN P
    ELSE Only({SeqRun(Q, bodies, [idx EXCEPT ![P.current_process[1]] = @ + 1]) :
                 Q \in {SeqOp(P, bodies[P.current_process[1]]
                                       [idx[P.current_process[1]] + 1])}})

SequentialLog(scheduler, bodies) ==
    SeqRun(SeqCall(Processor_new(scheduler), StopSyscall(Syscall("Fork", 0), 0)),
           bodies, [t \in DOMAIN bodies |-> 0]).logs

\* C4: determinism.  The log run returns is the log of the sequential
\* reading of the run, a function of the scheduler configuration and of
\* the actions of each process body: it is the same under every
\* interleaving of the threads.
C4_Determinism ==
    outcome.kind = "returned" =>
        outcome.logs = SequentialLog(InitialScheduler, trace)

\* A run has returned its log while a parent is still spawning its child:
\* other processes ran in between.
C4_Witness ==
    /\ outcome.kind = "returned"
    /\ Len(outcome.logs) >= 4
    /\ \E u \in Pids : pc[u] = "spawn" /\ pc[child[u].pid] = "none"

\* The last locked scheduler call was stop(Syscall{name}) for a current
\* process, and it returned.
LastWas(name) ==
    /\ last # None
    /\ ~last[1].abort
    /\ last[1].reason.kind = "Syscall"
    /\ last[1].reason.syscall.name = name
    /\ last[1].before.current_process # None

\* C5: when PID 1 issues Exit the next decision is Panic if another PCB is
\* in ready_queue or waiting_queue at that moment and Done if none is; an
\* Exit of any other pid is not followed by Panic.
C5_ExitOutcome ==
    LastWas("Exit") =>
        IF last[1].before.current_process[1].pid = 1
        THEN last[1].decisions[1] =
                IF last[1].before.ready_queue # <<>>
                   \/ last[1].before.waiting_queue # <<>>
                THEN Panic ELSE Done
        ELSE last[1].decisions[1].kind # "Panic"

\* PID 1 exits while the only other process sleeps, and Panic follows.
C5_Witness ==
    /\ LastWas("Exit")
    /\ last[1].before.current_process[1].pid = 1
    /\ last[1].before.ready_queue = <<>>
    /\ \E i \in 1..Len(last[1].before.waiting_queue) :
          /\ ~IsEventWaiter(last[1].before.waiting_queue[i])
          /\ last[1].before.waiting_queue[i].sleep > 0
    /\ last[1].decisions = <<Panic>>

\* The last call made on the scheduler was a next() that returned.
NextReturned ==
    last # None /\ last[1].call = "next" /\ ~last[1].abort

AllWaitOnEvents(q) == \A i \in 1..Len(q) : IsEventWaiter(q[i])

\* Nothing can run and nothing can wake by itself.
DeadlockCondition(s) ==
    /\ ~s.panic
    /\ s.current_process = None
    /\ s.ready_queue = <<>>
    /\ s.waiting_queue # <<>>
    /\ AllWaitOnEvents(s.waiting_queue)

\* C6: next() returns Deadlock exactly when panic is not latched, no
\* process is current, ready_queue is empty, waiting_queue is not and all
\* its PCBs wait on events (so the wake-pass readies nothing); never while
\* a PCB is ready or sleeping; and after Deadlock ready_queue is empty and
\* every waiter waits on an event.
C6_Deadlock ==
    NextReturned =>
        /\ (last[1].out = Deadlock) <=> DeadlockCondition(last[1].before)
        /\ last[1].out = Deadlock =>
              /\ last[1].after.ready_queue = <<>>
              /\ last[1].after.waiting_queue # <<>>
              /\ AllWaitOnEvents(last[1].after.waiting_queue)

\* next() returns Deadlock with two processes waiting on events.
C6_Witness ==
    /\ NextReturned
    /\ last[1].out = Deadlock
    /\ Len(last[1].after.waiting_queue) >= 2

\* C7: Panic is latched.  Once a next() has returned Panic, every later
\* next() returns Panic, whatever stop calls were made in between.
C7_PanicLatched ==
    (NextReturned /\ last[1].seen_panic) => last[1].out = Panic

\* Panic is returned again after stop calls that followed the first Panic.
C7_Witness ==
    /\ NextReturned
    /\ last[1].seen_panic
    /\ last[1].stops >= 1
    /\ last[1].out = Panic

\* The last locked scheduler call was a RoundRobin stop(Syscall{name}) for
\* a current process, and stop returned (next may have aborted after it).
StoppedRR(name) ==
    /\ last # None
    /\ poisoned # "scheduler"
    /\ last[1].before.policy = "RoundRobin"
    /\ last[1].reason.kind = "Syscall"
    /\ last[1].reason.syscall.name = name
    /\ last[1].before.current_process # None

Position(q, pid) == {i \in 1..Len(q) : q[i].pid = pid}

\* The PCBs stop(name) adds to ready_queue besides the caller: the child of
\* a Fork, the waiters on the event of a Signal.
Added(name, before, arg) ==
    IF name = "Fork" THEN {before.next_pid}
    ELSE {before.waiting_queue[i].pid : i \in
             {j \in 1..Len(before.waiting_queue) :
                 before.waiting_queue[j].state = Waiting(Some(arg))}}

Retention(name) ==
    StoppedRR(name) =>
        IF last[1].reason.remaining >= last[1].before.minimum_remaining_timeslice
        THEN /\ ~last[1].abort
             /\ last[1].decisions # <<>>
             /\ last[1].decisions[1] =
                   Run(last[1].before.current_process[1].pid,
                       last[1].reason.remaining)
        ELSE /\ last[1].stopped.ready_queue # <<>>
             /\ Position(last[1].stopped.ready_queue,
                         last[1].before.current_process[1].pid)
                   = {Len(last[1].stopped.ready_queue)}
             /\ \A pid \in Added(name, last[1].before, last[1].reason.syscall.arg) :
                   /\ Position(last[1].stopped.ready_queue, pid) # {}
                   /\ \A i \in Position(last[1].stopped.ready_queue, pid) :
                         i < Len(last[1].stopped.ready_queue)
             /\ ~last[1].abort
             /\ last[1].decisions # <<>>
             /\ last[1].decisions[1] =
                   Run(last[1].stopped.ready_queue[1].pid, last[1].before.timeslice)

\* C8: the retention rule of RoundRobin.  After stop(Fork) or stop(Signal)
\* reported with remaining >= minimum_remaining_timeslice the very next
\* decision is Run of the caller with timeslice = remaining; with remaining
\* below it the caller is at the back of ready_queue, behind the new child
\* or the woken waiters, and the next Run carries the full timeslice.
C8_Retention == Retention("Fork") /\ Retention("Signal")

PidsOf(q) == {q[i].pid : i \in 1..Len(q)}

\* The PCBs of q that satisfy Test(_).
Those(q, Test(_)) == {q[i] : i \in {j \in 1..Len(q) : Test(q[j])}}

\* C9: stop(Signal(e)) moves to ready_queue, with state Ready, every PCB
\* that waits on e and no other PCB: the waiters on another event and the
\* sleepers whose sleep is still positive once the elapsed time is taken
\* from it stay in waiting_queue, with their state.
C9_Signal ==
    LastWas("Signal") =>
        LET before == last[1].before
            after == last[1].stopped
            e == last[1].reason.syscall.arg
            elapsed == before.remaining - last[1].reason.remaining
            OnE(w) == w.state = Waiting(Some(e))
            OnOther(w) == IsEventWaiter(w) /\ ~OnE(w)
            Sleeping(w) == ~IsEventWaiter(w) /\ w.sleep - elapsed > 0
            Elapsed(w) == ~IsEventWaiter(w) /\ w.sleep - elapsed <= 0
        IN /\ \A w \in Those(before.waiting_queue, OnE) :
                 /\ w.pid \notin PidsOf(after.waiting_queue)
                 /\ \E i \in 1..Len(after.ready_queue) :
                       /\ after.ready_queue[i].pid = w.pid
                       /\ after.ready_queue[i].state = Ready
           /\ \A w \in Those(before.waiting_queue, OnOther)
                       \cup Those(before.waiting_queue, Sleeping) :
                 /\ w.pid \notin PidsOf(after.ready_queue)
                 /\ \E i \in 1..Len(after.waiting_queue) :
                       /\ after.waiting_queue[i].pid = w.pid
                       /\ after.waiting_queue[i].state = w.state
           /\ PidsOf(after.ready_queue) =
                 PidsOf(before.ready_queue)
                 \cup {before.current_process[1].pid}
                 \cup {w.pid : w \in Those(before.waiting_queue, OnE)}
                 \cup {w.pid : w \in Those(before.waiting_queue, Elapsed)}

\* A Signal(e) finds two waiters on e and a waiter on another event.
C9_Witness ==
    /\ LastWas("Signal")
    /\ Cardinality({i \in 1..Len(last[1].before.waiting_queue) :
          last[1].before.waiting_queue[i].state
             = Waiting(Some(last[1].reason.syscall.arg))}) >= 2
    /\ \E i \in 1..Len(last[1].before.waiting_queue) :
          /\ IsEventWaiter(last[1].before.waiting_queue[i])
          /\ last[1].before.waiting_queue[i].state
                # Waiting(Some(last[1].reason.syscall.arg))
    /\ Len(last[1].stopped.waiting_queue) = 1

\* A Signal(e) that finds no waiter on e leaves the scheduler as a Signal
\* of an event nobody ever names leaves it.
SignalLeavesNoTrace ==
    (/\ LastWas("Signal")
     /\ \A i \in 1..Len(last[1].before.waiting_queue) :
           last[1].before.waiting_queue[i].state
              # Waiting(Some(last[1].reason.syscall.arg)))
    => last[1].stopped =
          stop(last[1].before,
               [last[1].reason EXCEPT !.syscall.arg = 0 - 1]).s

\* A PCB waiting on e leaves waiting_queue only in a stop(Signal(e)).
WaiterLeaves(w) ==
    /\ IsEventWaiter(w)
    /\ w.pid \notin PidsOf(processor'.scheduler.waiting_queue)

WaitersLeaveBySignal ==
    \A i \in 1..Len(processor.scheduler.waiting_queue) :
       WaiterLeaves(processor.scheduler.waiting_queue[i]) =>
          /\ last' # None
          /\ last'[1].reason =
                StopSyscall(Syscall("Signal",
                               processor.scheduler.waiting_queue[i].state.event[1]),
                            last'[1].reason.remaining)

\* The two scenarios that signal before the wait, under RoundRobin.
SignalsBeforeWait ==
    /\ scenario \in {"signal_before_wait", "signal_before_wait_2"}
    /\ processor.scheduler.policy = "RoundRobin"

EndsInDeadlock ==
    /\ outcome.kind = "returned"
    /\ outcome.logs # <<>>
    /\ outcome.logs[Len(outcome.logs)].decision = Deadlock

\* C10: signals are not remembered.  A Signal(e) issued while nobody waits
\* on e leaves no trace, a PCB that waits on e leaves waiting_queue only by
\* a later Signal(e), and the runs of exec x5, signal(1), wait(1) and of
\* the parent that signals 2 before its child and itself wait on 2 end in
\* Deadlock.
C10_SignalsNotRemembered ==
    /\ []SignalLeavesNoTrace
    /\ [][WaitersLeaveBySignal]_vars
    /\ [](SignalsBeforeWait /\ outcome.kind = "returned" => EndsInDeadlock)
    /\ (SignalsBeforeWait => <>EndsInDeadlock)

\* The parent signalled 2, then the child and the parent waited on 2, and
\* the run returned with Deadlock.
C10_Witness ==
    /\ scenario = "signal_before_wait_2"
    /\ processor.scheduler.policy = "RoundRobin"
    /\ EndsInDeadlock
    /\ Len(processor.scheduler.waiting_queue) = 2
    /\ \A i \in 1..2 : processor.scheduler.waiting_queue[i].state = Waiting(Some(2))

\* The last call made on the scheduler returned and acted on its state.
CallActed ==
    last # None /\ ~last[1].abort /\ last[1].out # NoRunningProcess

\* elapsed >= n for a usize n; an n written below zero is above every
\* elapsed time of the model.
AtLeast(elapsed, n) == n >= 0 /\ elapsed >= n

\* C11: a process that issued Sleep(n) is in ready_queue or selected by Run
\* only when its total has grown by at least n since its Sleep stop, and a
\* sleeper whose sleep is <= 0 after a stop or a next has been moved to
\* ready_queue, Ready, by that call (the Sleep stop itself only puts its
\* caller to sleep).
C11_Sleep ==
    CallActed =>
        /\ \A e \in last[1].asleep :
              \A i \in 1..Len(last[1].after.current_process
                              \o last[1].after.ready_queue) :
                 LET p == (last[1].after.current_process
                           \o last[1].after.ready_queue)[i]
                 IN p.pid = e.pid =>
                       /\ p.state \in {Ready, Running}
                       /\ AtLeast(p.timings[1] - e.total, e.n)
        /\ \A i \in 1..Len(last[1].after.waiting_queue) :
              LET w == last[1].after.waiting_queue[i]
              IN (~IsEventWaiter(w) /\ w.sleep <= 0) =>
                    /\ last[1].call = "stop"
                    /\ last[1].reason.kind = "Syscall"
                    /\ last[1].reason.syscall.name = "Sleep"
                    /\ last[1].before.current_process = Some([w EXCEPT
                           !.state = Running,
                           !.sleep = last[1].before.current_process[1].sleep,
                           !.timings = last[1].before.current_process[1].timings,
                           !.vruntime = last[1].before.current_process[1].vruntime])

\* The next() calls of the loop of Processor::scheduler, k of them from
\* the scheduler s that stop left: what each was called on, left and
\* returned.
RECURSIVE NextCalls(_, _)
NextCalls(s, k) ==
    IF k = 0 THEN <<>>
    ELSE Only({<<[before |-> s, after |-> n.s, out |-> n.out]>>
                   \o NextCalls(n.s, k - 1) : n \in {next(s)}})

\* The next() calls that returned within the last call made: the one call
\* of a caller that drives the scheduler directly, the loop's calls under
\* the Processor.
NextsSeen ==
    IF last = None THEN <<>>
    ELSE IF scenario = "api"
    THEN IF last[1].call = "next" /\ ~last[1].abort
         THEN <<[before |-> last[1].before, after |-> last[1].after,
                 out |-> last[1].out]>>
         ELSE <<>>
    ELSE NextCalls(last[1].stopped, Len(last[1].decisions))

Sleepers(q) == {q[i] : i \in {j \in 1..Len(q) : ~IsEventWaiter(q[j])}}

\* C12: next() returns Sleep(d) only with no current process, ready_queue
\* empty once the wake-pass is done and a sleeper in waiting_queue; d is the
\* least sleep of the sleepers and d >= 1, whatever sleep values the PCBs
\* that wait on events carry.
C12_SleepDecision ==
    \A i \in 1..Len(NextsSeen) :
       LET c == NextsSeen[i] IN
       c.out.kind = "Sleep" =>
          /\ c.before.current_process = None
          /\ c.after.current_process = None
          /\ c.after.ready_queue = <<>>
          /\ Sleepers(c.after.waiting_queue) # {}
          /\ \E w \in Sleepers(c.after.waiting_queue) : w.sleep = c.out.timeslice
          /\ \A w \in Sleepers(c.after.waiting_queue) : w.sleep >= c.out.timeslice
          /\ c.out.timeslice >= 1

\* Sleep(d) is returned with a sleeper in waiting_queue and, ahead of it, a
\* PCB that waits on an event with a sleep left over from an earlier Sleep.
C12_Witness ==
    /\ scenario # "api"
    /\ \E i \in 1..Len(NextsSeen) :
          /\ NextsSeen[i].out.kind = "Sleep"
          /\ IsEventWaiter(NextsSeen[i].after.waiting_queue[1])
          /\ NextsSeen[i].after.waiting_queue[1].sleep # 0

\* timings = (total, syscall, execute).
TimingsSound(timings) == timings[1] >= timings[2] + timings[3]

\* C13: every PCB of the scheduler, and every process of every log
\* snapshot, has total >= syscall + execute.
C13_Timings ==
    /\ \A i \in 1..Len(list(processor.scheduler)) :
          TimingsSound(list(processor.scheduler)[i].timings)
    /\ \A i \in 1..Len(LogEntries) :
          \A pid \in DOMAIN LogEntries[i].processes :
             TimingsSound(LogEntries[i].processes[pid].timings)

\* A snapshot holds a process that has executed, made syscalls and spent
\* time ready or waiting, beside one whose total is all its own.
C13_Witness ==
    \E i \in 1..Len(LogEntries) :
       \E p, q \in DOMAIN LogEntries[i].processes :
          /\ LogEntries[i].processes[p].timings[2] >= 1
          /\ LogEntries[i].processes[p].timings[3] >= 1
          /\ LogEntries[i].processes[p].timings[1]
                > LogEntries[i].processes[p].timings[2]
                  + LogEntries[i].processes[p].timings[3]
          /\ LogEntries[i].processes[q].timings[2] >= 1
          /\ LogEntries[i].processes[q].timings[1]
                = LogEntries[i].processes[q].timings[2]
                  + LogEntries[i].processes[q].timings[3]

\* Every PCB that is in the scheduler before and after a call has its
\* total grown by amount.
TotalsGrowBy(before, after, amount) ==
    \A i \in 1..Len(list(before)) : \A j \in 1..Len(list(after)) :
       list(before)[i].pid = list(after)[j].pid =>
          list(after)[j].timings[1] = list(before)[i].timings[1] + amount

\* The time a stop closes: the part of the granted timeslice that was used.
Elapsed(before, reason) ==
    IF reason.kind = "Expired" THEN before.remaining
    ELSE before.remaining - reason.remaining

\* The last locked scheduler call was a stop for a current process, and
\* stop returned.
Stopped ==
    /\ last # None
    /\ poisoned # "scheduler"
    /\ last[1].before.current_process # None

\* C14: time advances in lockstep.  A stop adds the elapsed time, and a
\* next that applies a Sleep(d) adds d, to the total of every PCB that is
\* live before and after it; a next with no Sleep to apply changes no
\* total.  The amounts are never negative, and no live PCB has a larger
\* total than PID 1.
C14_Lockstep ==
    /\ Stopped =>
          /\ Elapsed(last[1].before, last[1].reason) >= 0
          /\ TotalsGrowBy(last[1].before, last[1].stopped,
                          Elapsed(last[1].before, last[1].reason))
    /\ \A i \in 1..Len(NextsSeen) :
          /\ NextsSeen[i].before.sleep >= 0
          /\ TotalsGrowBy(NextsSeen[i].before, NextsSeen[i].after,
                          IF NextsSeen[i].before.panic THEN 0
                          ELSE NextsSeen[i].before.sleep)
    /\ \A i, j \in 1..Len(list(processor.scheduler)) :
          list(processor.scheduler)[i].pid = 1 =>
             list(processor.scheduler)[i].timings[1]
                >= list(processor.scheduler)[j].timings[1]

\* A stop that closes at least one time unit with a sleeper waiting is
\* followed by a Sleep decision, which the following next applies.
C14_Witness ==
    /\ Stopped
    /\ ~last[1].abort
    /\ Elapsed(last[1].before, last[1].reason) >= 1
    /\ last[1].before.waiting_queue # <<>>
    /\ Len(last[1].decisions) >= 2
    /\ last[1].decisions[1].kind = "Sleep"
    /\ Len(list(last[1].stopped)) >= 2

\* The log entry the last locked scheduler call annotated: the decision
\* that started the process it stopped.
StartedBy == LogEntries[Len(LogEntries) - Len(last[1].decisions)]

\* The last locked scheduler call was a stop(Fork | Sleep | Wait | Signal)
\* for a current process, and stop returned.
StoppedBySyscall ==
    /\ Stopped
    /\ last[1].reason.kind = "Syscall"
    /\ last[1].reason.syscall.name \in {"Fork", "Sleep", "Wait", "Signal"}

\* C15: a stop for Fork, Sleep, Wait or Signal charges its caller exactly
\* total += granted - remaining, syscall += 1 and
\* execute += granted - remaining - 1, granted being the timeslice of the
\* Run decision that started the caller.
C15_SyscallCharge ==
    StoppedBySyscall =>
        LET caller == last[1].before.current_process[1]
            granted == StartedBy.decision.timeslice
            remaining == last[1].reason.remaining
        IN /\ StartedBy.decision.kind = "Run"
           /\ StartedBy.decision.pid = caller.pid
           /\ StartedBy.stop_reason = Some(<<last[1].reason, last[1].result>>)
           /\ PCBOf(last[1].stopped, caller.pid).timings =
                 <<caller.timings[1] + (granted - remaining),
                   caller.timings[2] + 1,
                   caller.timings[3] + (granted - remaining - 1)>>

\* A process retained after its Fork or Signal runs on with what was left
\* of its quantum, executes, and makes another syscall.
C15_Witness ==
    /\ StoppedBySyscall
    /\ StartedBy.decision.timeslice < last[1].before.timeslice
    /\ StartedBy.decision.timeslice - last[1].reason.remaining >= 2
    /\ last[1].before.current_process[1].timings[2] >= 1

\* The last locked scheduler call was a stop(Expired), and stop returned.
StoppedByExpired == Stopped /\ last[1].reason.kind = "Expired"

\* The quantum of the policy: the configured timeslice of RoundRobin, the
\* timeslice CFS computed in the stop.
Quantum(s) ==
    IF s.policy = "RoundRobin" THEN InitialScheduler.timeslice ELSE s.timeslice

\* C16: stop(Expired) adds the whole granted timeslice to the execute and
\* to the total of the preempted PCB and leaves its syscall count; the PCB
\* is Ready in ready_queue, and the Run decision that follows is granted
\* the full quantum.
C16_Expired ==
    StoppedByExpired =>
        LET caller == last[1].before.current_process[1]
            granted == StartedBy.decision.timeslice
            after == PCBOf(last[1].stopped, caller.pid)
        IN /\ StartedBy.decision = Run(caller.pid, granted)
           /\ after.timings = <<caller.timings[1] + granted,
                                caller.timings[2],
                                caller.timings[3] + granted>>
           /\ after.state = Ready
           /\ caller.pid \in PidsOf(last[1].stopped.ready_queue)
           /\ last[1].stopped.current_process = None
           /\ ~last[1].abort
           /\ last[1].decisions[1].kind = "Run"
           /\ last[1].decisions[1].timeslice = Quantum(last[1].stopped)

\* A process retained with the rest of its quantum uses it up; the Run
\* that follows is of another process and carries the full timeslice.
C16_Witness ==
    /\ StoppedByExpired
    /\ last[1].before.policy = "RoundRobin"
    /\ StartedBy.decision.timeslice < last[1].before.timeslice
    /\ last[1].before.ready_queue # <<>>
    /\ last[1].decisions[1] =
          Run(last[1].before.ready_queue[1].pid, last[1].before.timeslice)
    /\ last[1].decisions[1].pid # last[1].before.current_process[1].pid

\* How many of the actions a process has issued bear one of the names.
Issued(t, names) ==
    Cardinality({i \in 1..Len(trace[t]) : trace[t][i].name \in names})

\* The snapshots of the log from entry `from` on count, for every process
\* in them, the exec calls and the syscalls the process has issued.
SnapshotsCount(from) ==
    \A i \in from..Len(processor.logs) :
       \A pid \in DOMAIN processor.logs[i].processes :
          /\ pid \in Pids
          /\ processor.logs[i].processes[pid].timings[3] = Issued(pid, {"Exec"})
          /\ processor.logs[i].processes[pid].timings[2]
                = Issued(pid, {"Fork", "Sleep", "Wait", "Signal"})

\* C17: end to end.  When a call of Processor::scheduler logs snapshots,
\* all quanta are closed, and in every snapshot it logs the execute of each
\* process is the number of exec calls the process has made and its
\* syscall the number of fork, sleep, wait and signal calls it has made.
C17_EndToEnd ==
    [][\A from \in {Len(processor.logs) + 1} :
          Len(processor'.logs) >= from => SnapshotsCount(from)']_vars

\* The last snapshot holds a process that has made two exec calls and a
\* syscall and another that has made an exec call.
C17_Witness ==
    /\ processor.logs # <<>>
    /\ \E p, q \in DOMAIN processor.logs[Len(processor.logs)].processes :
          /\ p # q
          /\ processor.logs[Len(processor.logs)].processes[p].timings[3] >= 2
          /\ processor.logs[Len(processor.logs)].processes[p].timings[2] >= 1
          /\ processor.logs[Len(processor.logs)].processes[q].timings[3] >= 1

\* C18: pids are dense and monotonic.  The n-th Fork that the scheduler
\* accepts returns Pid(n), whatever processes have exited since; only a
\* Fork returns a pid; next_pid is one above the number of pids given, so
\* a stop answered NoRunningProcess, like every other call, consumes none;
\* and every live PCB bears a pid that was given.
C18_Pids ==
    (last # None /\ ~last[1].abort) =>
        /\ last[1].out.kind = "Pid" =>
              /\ last[1].call = "stop"
              /\ last[1].reason.kind = "Syscall"
              /\ last[1].reason.syscall.name = "Fork"
              /\ last[1].out = Pid(last[1].forks)
              /\ last[1].after.next_pid = last[1].before.next_pid + 1
        /\ last[1].out.kind # "Pid" =>
              last[1].after.next_pid = last[1].before.next_pid
        /\ last[1].after.next_pid = last[1].forks + 1
        /\ \A i \in 1..Len(list(last[1].after)) :
              list(last[1].after)[i].pid \in 1..last[1].forks

\* The third Fork returns Pid(3) after PID 2 has exited.
C18_Witness ==
    /\ last # None
    /\ last[1].out = Pid(3)
    /\ PidsOf(list(last[1].after)) = {1, 3}

\* The last locked scheduler call was a stop(Fork) that returned a pid.
Forked ==
    /\ last # None
    /\ poisoned # "scheduler"
    /\ last[1].reason.kind = "Syscall"
    /\ last[1].reason.syscall.name = "Fork"
    /\ last[1].result.kind = "Pid"

\* The sleepers of the scheduler `before` that the stop has readied.
WokenBy(before, after) ==
    {w.pid : w \in Sleepers(before.waiting_queue)} \cap PidsOf(after.ready_queue)

\* C19: an accepted Fork(priority) adds exactly one PCB, the child: Ready,
\* timings (0, 0, 0), the priority given, in ready_queue; under RoundRobin
\* it stands behind every PCB that was ready and every sleeper the stop
\* woke, only its parent can stand behind it; and in the snapshot logged
\* right after the Fork its timings are still (0, 0, 0).
C19_Fork ==
    Forked =>
        LET before == last[1].before
            after == last[1].stopped
            pid == last[1].result.pid
            newborn == PCBOf(after, pid)
        IN /\ pid \notin PidsOf(list(before))
           /\ PidsOf(list(after)) = PidsOf(list(before)) \cup {pid}
           /\ Len(list(after)) = Len(list(before)) + 1
           /\ newborn.state = Ready
           /\ newborn.timings = <<0, 0, 0>>
           /\ newborn.priority = last[1].reason.syscall.arg
           /\ Cardinality(Position(after.ready_queue, pid)) = 1
           /\ before.policy = "RoundRobin" =>
                 \A i \in 1..Len(after.ready_queue) :
                    after.ready_queue[i].pid
                       \in PidsOf(before.ready_queue) \cup WokenBy(before, after)
                    => \A j \in Position(after.ready_queue, pid) : i < j
           /\ last[1].decisions # <<>> =>
                 /\ pid \in DOMAIN
                       LogEntries[Len(LogEntries) - Len(last[1].decisions) + 1].processes
                 /\ LogEntries[Len(LogEntries) - Len(last[1].decisions) + 1]
                       .processes[pid].timings = <<0, 0, 0>>

\* A Fork that closes at least one time unit wakes a sleeper, and the
\* child stands behind it.
C19_Witness ==
    /\ Forked
    /\ last[1].before.policy = "RoundRobin"
    /\ WokenBy(last[1].before, last[1].stopped) # {}
    /\ last[1].before.remaining - last[1].reason.remaining >= 1
    /\ last[1].decisions # <<>>

\* The last call was a stop(Syscall) made while no process was current,
\* other than the bootstrap Fork.
StopWithoutCurrent ==
    /\ last # None
    /\ last[1].call = "stop"
    /\ last[1].reason.kind = "Syscall"
    /\ last[1].before.current_process = None
    /\ ~(last[1].reason.syscall.name = "Fork" /\ last[1].before.next_pid = 1)

\* C20: a stop(Syscall) made while no process is current, other than the
\* bootstrap Fork, returns NoRunningProcess and leaves the scheduler as it
\* was, on a fresh scheduler too.
C20_NoRunningProcess ==
    StopWithoutCurrent =>
        /\ ~last[1].abort
        /\ last[1].out = NoRunningProcess
        /\ last[1].after = last[1].before

\* C21: after the terminal decision (running = false) no action of a
\* still-live task reaches the scheduler or the log, exec takes nothing
\* from the quantum, and no task panics, whatever its body still issues:
\* fork, sleep, wait, signal and exit return NoRunningProcess.
C21_AfterShutdown ==
    [][~processor.running =>
          /\ processor'.scheduler = processor.scheduler
          /\ LogEntries' = LogEntries
          /\ processor'.remaining = processor.remaining
          /\ last' = last
          /\ \A t \in Pids : pc'[t] = "panicked" => pc[t] = "panicked"]_vars

\* Thread t was never spawned, or it has run its closure to the end and
\* made its exit.
RanToEnd(t) == pc[t] \in {"none", "done"}

\* C22: shutdown liveness.  Once a Deadlock, Panic or Done decision has
\* set running to false, every thread - blocked in suspend, about to reach
\* it, or not yet spawned by its parent - goes on and runs to the end of
\* its body: none stays blocked, under every interleaving.
C22_Shutdown == (~processor.running) ~> (\A t \in Pids : RanToEnd(t))

\* C23: bootstrap through the public factories.  In a run of the scheduler
\* that round_robin, priority_queue or cfs returns, the bootstrap
\* stop(Fork(0)) returns Pid(1) without aborting, and the first log entry
\* is Run{pid 1, timeslice = the configured quantum} with PID 1 as the
\* only process.
C23_Bootstrap ==
    (scenario \in FactoryNames /\ outcome.kind # "init") =>
        /\ last # None
        /\ last[1].caller = 0 => (~last[1].abort /\ last[1].result = Pid(1))
        /\ outcome.kind # "panicked"
        /\ LogEntries # <<>>
        /\ LogEntries[1].decision = Run(1, FactoryCalls[scenario].quantum)
        /\ DOMAIN LogEntries[1].processes = {1}

\* Thread t makes its locked scheduler call in this step, and stop returns.
StopProcessed(t) ==
    /\ pc[t] = "sched"
    /\ pc'[t] # "sched"
    /\ poisoned = "none"
    /\ poisoned' # "scheduler"

\* The step leaves every entry the log had, but for entry n.
KeepsEntries(n) ==
    /\ Len(LogEntries') >= Len(LogEntries)
    /\ \A i \in 1..Len(LogEntries) : i # n => LogEntries'[i] = LogEntries[i]

\* C24: log annotation.  A stop processed while running stores its
\* (reason, result) in the last entry of the log, the Run decision that
\* started the caller, which has no stop_reason until then; every other
\* entry is left as it is, so a stop_reason once set is never overwritten;
\* only Run entries ever have one; the bootstrap Fork is stored in none.
C24_Annotation ==
    [][/\ \A t \in Pids : StopProcessed(t) =>
             \A n \in {Len(LogEntries)} :
                /\ n > 0
                /\ LogEntries[n].decision.kind = "Run"
                /\ LogEntries[n].decision.pid = t
                /\ LogEntries[n].stop_reason = None
                /\ LogEntries'[n] =
                      [LogEntries[n] EXCEPT !.stop_reason =
                          Some(<<last'[1].reason, last'[1].result>>)]
                /\ last'[1].caller = t
                /\ KeepsEntries(n)
       /\ (\A t \in Pids : ~StopProcessed(t)) => KeepsEntries(0)
       /\ \A i \in 1..Len(LogEntries') :
             LogEntries'[i].stop_reason # None =>
                LogEntries'[i].decision.kind = "Run"
       /\ outcome.kind = "init" =>
             \A i \in 1..Len(LogEntries') : LogEntries'[i].stop_reason = None
      ]_vars

\* A Sleep decision stands in the log between two annotated Run
\* decisions, the log having been returned by run.
C24_Witness ==
    /\ outcome.kind = "returned"
    /\ \E i, j, k \in 1..Len(LogEntries) :
          /\ i < j /\ j < k
          /\ LogEntries[i].stop_reason # None
          /\ LogEntries[j].decision.kind = "Sleep"
          /\ LogEntries[j].stop_reason = None
          /\ LogEntries[k].stop_reason # None
          /\ LogEntries[Len(LogEntries)].stop_reason = None

Max2(a, b) == IF a >= b THEN a ELSE b

\* The last locked scheduler call was a CFS stop for a current process.
CFSStop ==
    /\ last # None
    /\ last[1].before.policy = "CFS"
    /\ last[1].before.current_process # None

\* The processes of s that can run: the ready ones and the current one.
Runnable(s) == Len(s.ready_queue) + Len(s.current_process)

\* C25: every CFS stop returns, without a division by zero and without a
\* zero quantum, and leaves timeslice = max(1, cpu_time / max(1, number
\* of runnable processes)), also when no process is runnable and when
\* there are more of them than cpu_time.
C25_Quantum ==
    CFSStop =>
        /\ poisoned # "scheduler"
        /\ last[1].stopped.timeslice =
              Max2(1, last[1].before.cpu_time
                         \div Max2(1, Runnable(last[1].stopped)))

\* The last locked scheduler call was a CFS stop for a current process
\* that returned and left the caller alive.
CFSCharged ==
    /\ CFSStop
    /\ poisoned # "scheduler"
    /\ last[1].before.current_process[1].pid \in PidsOf(list(last[1].stopped))

CFSForked ==
    /\ last # None
    /\ last[1].call = "stop"
    /\ ~last[1].abort
    /\ last[1].out.kind = "Pid"
    /\ last[1].before.policy = "CFS"
    /\ last[1].before.current_process # None

\* The vruntimes of the PCBs of s other than pid.
VruntimesBut(s, pid) ==
    {list(s)[i].vruntime : i \in {j \in 1..Len(list(s)) : list(s)[j].pid # pid}}

\* The child of the last Fork has the least vruntime of the other live
\* PCBs - ready, waiting and the parent as charged - which is the
\* minimum_vruntime the Fork leaves, not below the one it found.
ChildBirth ==
    CFSForked =>
        LET newborn == PCBOf(last[1].after, last[1].out.pid)
            others == VruntimesBut(last[1].after, last[1].out.pid)
        IN /\ newborn.vruntime \in others
           /\ \A v \in others : newborn.vruntime <= v
           /\ newborn.vruntime = last[1].after.minimum_vruntime
           /\ newborn.vruntime >= last[1].before.minimum_vruntime

\* C27: in CFS no call of stop or next lowers minimum_vruntime, and every
\* forked child starts with the minimum vruntime over all live PCBs,
\* hence with at least the minimum_vruntime of the time of the fork.
C27_MinimumVruntime ==
    [][/\ processor'.scheduler.minimum_vruntime
             >= processor.scheduler.minimum_vruntime
       /\ ChildBirth']_vars

\* A Fork of a child process raises minimum_vruntime above a value that
\* was already above zero, while another PCB is in waiting_queue.
C27_Witness ==
    /\ CFSForked
    /\ last[1].before.current_process[1].pid # 1
    /\ last[1].before.minimum_vruntime > 0
    /\ last[1].after.minimum_vruntime > last[1].before.minimum_vruntime
    /\ last[1].before.waiting_queue # <<>>

\* The last locked scheduler call was made on a CFS scheduler and its
\* last decision was Run.
CFSRan == LastDecisionIsRun /\ last[1].before.policy = "CFS"

\* The Run of the last call continues its caller, which its own Fork or
\* Signal put back at the front of ready_queue with what was left of its
\* quantum.
RetainedAtFront ==
    /\ last[1].before.current_process # None
    /\ last[1].reason.kind = "Syscall"
    /\ last[1].reason.syscall.name \in {"Fork", "Signal"}
    /\ last[1].stopped.ready_queue # <<>>
    /\ last[1].stopped.ready_queue[1].pid = last[1].before.current_process[1].pid
    /\ last[1].stopped.remaining >= last[1].before.minimum_remaining_timeslice
    /\ last[1].stopped.remaining <= last[1].reason.remaining
    /\ last[1].decisions[1].pid = last[1].before.current_process[1].pid

\* C28: CFS selection order.  A Run decision that does not continue a
\* process retained at the front after its own Fork or Signal goes to the
\* ready PCB with the smallest (vruntime, pid): no PCB left in ready_queue
\* comes before it, the PCBs the wake-pass of next() has just moved there
\* included.
C28_SelectionOrder ==
    (CFSRan /\ ~RetainedAtFront) =>
        \A i \in 1..Len(processor.scheduler.ready_queue) :
            Less("vruntime", processor.scheduler.current_process[1],
                 processor.scheduler.ready_queue[i])

\* The vruntimes of the Ready and Running processes of a logged snapshot.
RunnableVruntimes(processes) ==
    {processes[pid].extra[1] :
        pid \in {p \in DOMAIN processes :
                    processes[p].state.tag \in {"Ready", "Running"}}}

FairnessSnapshot == processor.logs[Len(processor.logs)].processes

InFairnessRun ==
    /\ scenario = "cfs_fairness"
    /\ processor.scheduler.policy = "CFS"
    /\ processor.logs # <<>>

\* Every runnable process of the snapshot has executed.
AllHaveExecuted(processes) ==
    \A p \in DOMAIN processes :
        processes[p].state.tag \in {"Ready", "Running"} =>
            processes[p].timings[3] > 0

SingleProcessRun ==
    /\ scenario = "single_process"
    /\ InitialScheduler = RoundRobin_new(2, 1)

\* The decisions of a log with their annotations.
Annotated(logs) ==
    [i \in 1..Len(logs) |-> <<logs[i].decision, logs[i].stop_reason>>]

\* C30: single process, five execs, RoundRobin with quantum 2 and
\* min_remaining 1.  The run does not panic, and the log it returns is
\* exactly Run(1, 2) annotated Expired, Run(1, 2) annotated Expired,
\* Run(1, 2) annotated with the Exit syscall, then Done with no process
\* left; PID 1 is the only process of the first three snapshots.
C30_SingleProcess ==
    SingleProcessRun =>
        /\ outcome.kind # "panicked"
        /\ outcome.kind = "returned" =>
              /\ Annotated(outcome.logs) =
                    << <<Run(1, 2), Some(<<Expired, Success>>)>>,
                       <<Run(1, 2), Some(<<Expired, Success>>)>>,
                       <<Run(1, 2), Some(<<StopSyscall(Exit, 0), Success>>)>>,
                       <<Done, None>> >>
              /\ \A i \in 1..3 : DOMAIN outcome.logs[i].processes = {1}
              /\ DOMAIN outcome.logs[4].processes = {}

\* The run of the scenario has returned its log.
C30_Witness ==
    /\ SingleProcessRun
    /\ outcome.kind = "returned"
    /\ Len(outcome.logs) = 4
    /\ trace[1] = <<Exec, Exec, Exec, Exec, Exec, Exit>>

\* The documented example (main.rs, the doc example of Processor::run) run
\* with RoundRobin::new(2, 1).
ExampleRun ==
    /\ scenario = "example"
    /\ InitialScheduler = RoundRobin_new(2, 1)

\* The log of the example: the child blocks on event 1, a Sleep decision
\* idles the CPU, the parent's Signal(1) leaves the child Ready, the child
\* exits, then the root, and the run ends with Done.
ExampleLog(logs) ==
    /\ Annotated(logs) =
          << <<Run(1, 2), Some(<<Expired, Success>>)>>,
             <<Run(1, 2), Some(<<Expired, Success>>)>>,
             <<Run(1, 2), Some(<<StopSyscall(Syscall("Fork", 0), 1), Pid(2)>>)>>,
             <<Run(1, 1), Some(<<StopSyscall(Syscall("Sleep", 10), 0), Success>>)>>,
             <<Run(2, 2), Some(<<Expired, Success>>)>>,
             <<Run(2, 2), Some(<<StopSyscall(Syscall("Wait", 1), 1), Success>>)>>,
             <<Sleep(7), None>>,
             <<Run(1, 2), Some(<<StopSyscall(Syscall("Signal", 1), 1), Success>>)>>,
             <<Run(1, 1), Some(<<Expired, Success>>)>>,
             <<Run(2, 2), Some(<<StopSyscall(Exit, 1), Success>>)>>,
             <<Run(1, 2), Some(<<StopSyscall(Exit, 1), Success>>)>>,
             <<Done, None>> >>
    /\ logs[7].processes[2].state = Waiting(Some(1))
    /\ logs[7].processes[1].state = Waiting(None)
    /\ logs[9].processes[2].state = Ready
    /\ DOMAIN logs[11].processes = {1}
    /\ DOMAIN logs[12].processes = {}

ExampleDone == outcome.kind = "returned" /\ ExampleLog(outcome.logs)

\* C31: the documented example under RoundRobin with quantum 2 and
\* min_remaining 1.  The run never panics and always returns; its log ends
\* with Done and holds no Panic and no Deadlock: the child blocks on event
\* 1, a Sleep decision idles the CPU while the parent sleeps, the parent's
\* signal(1) makes the child Ready, and the child exits before the root.
C31_Example ==
    /\ [](ExampleRun => outcome.kind # "panicked")
    /\ [](ExampleRun /\ outcome.kind = "returned" => ExampleDone)
    /\ (ExampleRun => <>ExampleDone)

\* The example has returned its log; the child issued its two execs, its
\* wait and its exit.
C31_Witness ==
    /\ ExampleRun
    /\ ExampleDone
    /\ trace[2] = <<Exec, Exec, Syscall("Wait", 1), Exit>>

\* The timings on record for PID 1 when the run has returned: those of the
\* PCB its Exit found as the current process, and those of its snapshots.
RecordedTimings ==
    {last[1].before.current_process[i].timings :
        i \in 1..Len(last[1].before.current_process)}
    \cup {outcome.logs[i].processes[1].timings :
            i \in {j \in 1..Len(outcome.logs) :
                      1 \in DOMAIN outcome.logs[j].processes}}

\* C32: single process, five execs.  The PCB of PID 1 ends with total 5,
\* syscall 1 and execute 5.
C32_FinalPCB ==
    SingleProcessRun /\ outcome.kind = "returned" =>
        <<5, 1, 5>> \in RecordedTimings

\* C32, amended: the PCB of PID 1 ends with total 4, syscall 0 and execute
\* 4.  The two preempted quanta are charged in full; the quantum of the
\* fifth exec is closed by Exit, which charges nothing to its caller and
\* removes its PCB, so the PCB Exit found and the last snapshot of PID 1
\* both read (4, 0, 4) and no PCB is left.
C32_FinalPCBUncharged ==
    SingleProcessRun =>
        /\ \A i \in 1..Len(list(processor.scheduler)) :
              list(processor.scheduler)[i].timings
                 \in {<<0, 0, 0>>, <<2, 0, 2>>, <<4, 0, 4>>}
        /\ outcome.kind = "returned" =>
              /\ last # None
              /\ last[1].caller = 1
              /\ last[1].reason = StopSyscall(Exit, 0)
              /\ last[1].before.current_process # None
              /\ last[1].before.current_process[1].timings = <<4, 0, 4>>
              /\ list(last[1].stopped) = <<>>
              /\ list(processor.scheduler) = <<>>
              /\ outcome.logs[3].processes[1].timings = <<4, 0, 4>>
              /\ RecordedTimings = {<<0, 0, 0>>, <<2, 0, 2>>, <<4, 0, 4>>}

\* The run has returned after the Exit of PID 1 found its PCB current.
C32_Witness ==
    /\ SingleProcessRun
    /\ outcome.kind = "returned"
    /\ last # None
    /\ last[1].reason.syscall.name = "Exit"
    /\ last[1].before.current_process # None
    /\ last[1].before.current_process[1].pid = 1

\* Every occurrence of pid a in q stands before every occurrence of pid b.
Ahead(q, a, b) == \A i \in Position(q, a) : \A j \in Position(q, b) : i < j

\* C33: on stop(Expired) under RoundRobin the preempted process is
\* appended to ready_queue before the wake-pass runs: it stands ahead of
\* every sleeper that the same stop wakes, and is run before it.
C33_ExpiredOrder ==
    (StoppedByExpired /\ last[1].before.policy = "RoundRobin") =>
        \A w \in WokenBy(last[1].before, last[1].stopped) :
           /\ Ahead(last[1].stopped.ready_queue,
                    last[1].before.current_process[1].pid, w)
           /\ last[1].decisions # <<>> => last[1].decisions[1].pid # w

\* C34: in stop(Signal(e)) under RoundRobin the wake-pass precedes the
\* signal: the sleepers whose sleep has reached zero or less at that stop
\* stand in ready_queue ahead of the waiters on e that the signal wakes.
C34_SignalOrder ==
    StoppedRR("Signal") =>
        \A w \in WokenBy(last[1].before, last[1].stopped) :
           \A v \in Added("Signal", last[1].before, last[1].reason.syscall.arg) :
              Ahead(last[1].stopped.ready_queue, w, v)

\* The pids of a queue, in its order.
PidSeq(q) == [i \in 1..Len(q) |-> q[i].pid]

IsPrefix(a, b) == Len(a) <= Len(b) /\ SubSeq(b, 1, Len(a)) = a

\* The last stop was a Fork or a Signal whose caller had at least
\* minimum_remaining_timeslice left.
Retained ==
    /\ last[1].before.current_process # None
    /\ last[1].reason.kind = "Syscall"
    /\ last[1].reason.syscall.name \in {"Fork", "Signal"}
    /\ last[1].reason.remaining >= last[1].before.minimum_remaining_timeslice

\* The ready_queue a stop leaves is the one it found, in its order, with
\* what the stop appended behind it and at most the retained caller ahead.
StopKeepsOrder ==
    LET old == PidSeq(last[1].before.ready_queue)
        new == PidSeq(last[1].stopped.ready_queue)
    IN \E k \in {0, 1} :
          /\ Len(new) >= k + Len(old)
          /\ SubSeq(new, k + 1, k + Len(old)) = old
          /\ k = 1 => /\ Retained
                      /\ new[1] = last[1].before.current_process[1].pid

\* A next runs the front of the ready_queue it found and leaves the rest in
\* its order, with the sleepers it woke behind.
NextKeepsOrder(n) ==
    LET old == PidSeq(n.before.ready_queue)
        new == PidSeq(n.after.ready_queue)
    IN IF n.out.kind = "Run"
       THEN IsPrefix(old, <<n.out.pid>> \o new)
       ELSE IsPrefix(old, new)

\* C35: round-robin order.  The processes of ready_queue are run in the
\* order in which they were appended: a stop and a next keep the order of
\* the PCBs that are ready and append behind them, a next runs the front,
\* and only the caller of a Fork or Signal that is retained is put ahead.
C35_RoundRobinOrder ==
    (last # None /\ poisoned # "scheduler"
        /\ last[1].before.policy = "RoundRobin") =>
        /\ StopKeepsOrder
        /\ \A i \in 1..Len(NextsSeen) : NextKeepsOrder(NextsSeen[i])

\* A retained caller was put ahead of a process that was ready, what its
\* stop readied went behind that process, and the caller was run.
C35_Witness ==
    /\ last # None
    /\ poisoned = "none"
    /\ last[1].before.policy = "RoundRobin"
    /\ Retained
    /\ last[1].before.ready_queue # <<>>
    /\ Len(last[1].stopped.ready_queue) >= Len(last[1].before.ready_queue) + 2
    /\ last[1].decisions # <<>>
    /\ last[1].decisions[1].pid = last[1].before.current_process[1].pid
    /\ last[1].decisions[1].kind = "Run"

\* No pid occurs twice in the sequence of PCBs l.
NoDuplicates(l) == \A i, j \in 1..Len(l) : l[i].pid = l[j].pid => i = j

\* The pids a Fork has returned: that of every thread spawned, that of the
\* child a parent is about to spawn, and that of the last stop (whose
\* caller never sees it when the next() that follows panics).
ForkedPids ==
    {t \in Pids : pc[t] # "none"}
    \cup {child[t].pid : t \in {u \in Pids : pc[u] = "spawn"}}
    \cup (IF last # None /\ poisoned # "scheduler" /\ last[1].result.kind = "Pid"
          THEN {last[1].result.pid} ELSE {})

\* The pids whose Exit the scheduler has processed.
ExitedPids ==
    {t \in Pids : /\ pc[t] \in {"exited", "done"}
                  /\ trace[t] # <<>>
                  /\ trace[t][Len(trace[t])] = Exit}

\* C36: PCB conservation.  After every call of Processor::scheduler, and
\* after the stop and each next within it, each live pid is once among
\* current_process, ready_queue and waiting_queue, and the live pids are
\* the pids Fork has returned less those whose Exit was processed.
C36_Conservation ==
    (\/ processor.scheduler.policy = "RoundRobin"
     \/ processor.scheduler.policy = "CFS" /\ poisoned # "scheduler") =>
        /\ NoDuplicates(list(processor.scheduler))
        /\ PidsOf(list(processor.scheduler)) = ForkedPids \ ExitedPids
        /\ last # None =>
              /\ NoDuplicates(list(last[1].stopped))
              /\ \A i \in 1..Len(NextsSeen) :
                    /\ NoDuplicates(list(NextsSeen[i].after))
                    /\ PidsOf(list(NextsSeen[i].after))
                          = PidsOf(list(NextsSeen[i].before))

\* Under RoundRobin a process has exited and the others are one current,
\* some ready and some waiting.
C36_Witness ==
    /\ processor.scheduler.policy = "RoundRobin"
    /\ poisoned = "none"
    /\ ExitedPids # {}
    /\ processor.scheduler.current_process # None
    /\ processor.scheduler.ready_queue # <<>>
    /\ processor.scheduler.waiting_queue # <<>>

\* The next() n returned Sleep(d) and the next() m followed it: m returned
\* Run for a PCB that was a sleeper with sleep d, and added d to the total
\* of every PCB that was waiting.
SleepThenRun(n, m) ==
    LET d == n.out.timeslice IN
    /\ d >= 1
    /\ m.before = n.after
    /\ m.out.kind = "Run"
    /\ \E w \in Sleepers(m.before.waiting_queue) :
          w.sleep = d /\ w.pid = m.out.pid
    /\ \A i \in 1..Len(m.before.waiting_queue) :
          LET w == m.before.waiting_queue[i] IN
          /\ w.pid \in PidsOf(list(m.after))
          /\ PCBOf(m.after, w.pid).timings[1] = w.timings[1] + d

\* No Sleep entry of the log is the last one, and the entry after it is a
\* Run.
SleepEntriesThenRun(logs) ==
    \A i \in 1..Len(logs) :
       logs[i].decision.kind = "Sleep" =>
          i < Len(logs) /\ logs[i + 1].decision.kind = "Run"

\* C37: a Sleep(d) decision is followed at once by a Run decision for a
\* sleeper whose sleep was d: never by another Sleep, by Deadlock, by Done
\* or by a panic of next(); between the two the total of every waiting PCB
\* grows by d.
C37_SleepThenRun ==
    /\ last # None =>
          \A i \in 1..Len(NextsSeen) :
             NextsSeen[i].out.kind = "Sleep" =>
                /\ i < Len(NextsSeen)
                /\ SleepThenRun(NextsSeen[i], NextsSeen[i + 1])
    /\ SleepEntriesThenRun(processor.logs)
    /\ SleepEntriesThenRun(outcome.logs)

\* A Sleep of two units or more was decided while another PCB waited on an
\* event, and the Run of the sleeper followed.
C37_Witness ==
    /\ last # None
    /\ poisoned = "none"
    /\ \E i \in 1..Len(NextsSeen) :
          /\ NextsSeen[i].out.kind = "Sleep"
          /\ NextsSeen[i].out.timeslice >= 2
          /\ i < Len(NextsSeen)
          /\ NextsSeen[i + 1].out.kind = "Run"
          /\ \E j \in 1..Len(NextsSeen[i].after.waiting_queue) :
                IsEventWaiter(NextsSeen[i].after.waiting_queue[j])

\* The PCB w, waiting on an event, is in waiting_queue after the step as it
\* was before it, but for its total.
WaiterKept(w) ==
    \E j \in 1..Len(processor'.scheduler.waiting_queue) :
       processor'.scheduler.waiting_queue[j] =
          [w EXCEPT !.timings[1] = processor'.scheduler.waiting_queue[j].timings[1]]

\* After a call whose stop was an accepted Wait(e), the caller is in
\* waiting_queue in state Waiting{event: Some(e)} with the sleep it had:
\* the next() calls of the loop have left it there.
WaitParks ==
    (/\ last # None
     /\ poisoned = "none"
     /\ last[1].reason.kind = "Syscall"
     /\ last[1].reason.syscall.name = "Wait"
     /\ last[1].before.current_process # None) =>
        \E j \in 1..Len(processor.scheduler.waiting_queue) :
           LET w == processor.scheduler.waiting_queue[j] IN
           /\ w.pid = last[1].before.current_process[1].pid
           /\ w.state = Waiting(Some(last[1].reason.syscall.arg))
           /\ w.sleep = last[1].before.current_process[1].sleep

\* C38: a PCB in Waiting{event: Some(e)} leaves waiting_queue only in a
\* stop(Signal(e)); until then no stop, no applied Sleep amount and no
\* wake-pass moves it, changes its state or changes its sleep, whatever
\* sleep an earlier Sleep has left in it.
C38_EventWaiters ==
    /\ []WaitParks
    /\ [][\A i \in 1..Len(processor.scheduler.waiting_queue) :
          LET w == processor.scheduler.waiting_queue[i] IN
          IsEventWaiter(w) =>
             IF WaiterLeaves(w)
             THEN /\ last' # None
                  /\ last'[1].reason =
                        StopSyscall(Syscall("Signal", w.state.event[1]),
                                    last'[1].reason.remaining)
                  /\ w.pid \in PidsOf(processor'.scheduler.ready_queue)
                                  \cup PidsOf(processor'.scheduler.current_process)
             ELSE WaiterKept(w)]_vars

\* A PCB that waits on an event with the negative sleep an earlier Sleep
\* left in it is still waiting after a call that applied a Sleep amount.
C38_Witness ==
    /\ last # None
    /\ poisoned = "none"
    /\ \E i \in 1..Len(NextsSeen) : NextsSeen[i].out.kind = "Sleep"
    /\ \E j \in 1..Len(processor.scheduler.waiting_queue) :
          /\ IsEventWaiter(processor.scheduler.waiting_queue[j])
          /\ processor.scheduler.waiting_queue[j].sleep < 0
          /\ IsEventWaiter(PCBOf(last[1].before,
                                 processor.scheduler.waiting_queue[j].pid))

\* The last locked scheduler call was made on a RoundRobin scheduler.
CalledRR == last # None /\ last[1].before.policy = "RoundRobin"

\* Every Run decision of the last call carries a timeslice between 1 and
\* the configured quantum.
RunsWithinQuantum ==
    \A i \in 1..Len(last[1].decisions) :
       last[1].decisions[i].kind = "Run" =>
          last[1].decisions[i].timeslice \in 1..InitialScheduler.timeslice

\* The remaining reported with a syscall is below the timeslice granted,
\* and a stop other than the bootstrap Fork finds a current process.
ChargeDefined ==
    /\ last[1].caller # 0 => last[1].before.current_process # None
    /\ (last[1].caller # 0 /\ last[1].reason.kind = "Syscall") =>
          /\ last[1].reason.remaining >= 0
          /\ last[1].reason.remaining < last[1].before.remaining

\* C39: abort-freedom of RoundRobin under the Processor, for every
\* timeslice >= 1 and every minimum_remaining_timeslice >= 0: stop and
\* next never abort, every Run decision carries a timeslice between 1 and
\* the quantum, the remaining of a syscall is below the granted timeslice,
\* and a stop that is charged finds a current process.
C39_AbortFree ==
    CalledRR =>
        /\ ~last[1].abort
        /\ RunsWithinQuantum
        /\ ChargeDefined

\* The task of process p has not come out of suspend() since it was made
\* current: its thread is not spawned yet, its parent is about to spawn
\* the child and then suspend, or it is in suspend().
BeforeResume(p) == pc[p] \in {"none", "spawn", "suspend", "wait"}

\* The processor is running, process p is current and its task has still
\* to come out of suspend().
Selected(p) ==
    /\ processor.running
    /\ processor.current_process = Some(p)
    /\ BeforeResume(p)

\* The current process is replaced only in a call of Processor::scheduler
\* that its own task makes, so after it came out of suspend().
CurrentLeavesByItself ==
    (/\ processor.current_process # None
     /\ processor'.current_process # processor.current_process) =>
        /\ processor.current_process[1] \in Pids
        /\ pc[processor.current_process[1]] = "sched"

\* The task of the current process is out of suspend() and goes on with
\* its closure.
Resumed ==
    \E p \in Pids : processor.current_process = Some(p) /\ pc[p] = "body"

\* C40: no lost wake-up.  Whenever the processor is running and p is the
\* current process, the task of p comes out of suspend() and goes on with
\* its closure, under every interleaving: also when p is a child selected
\* before its parent spawned its thread, and when p reaches suspend()
\* after the notify_all for its pid.
C40_NoLostWakeup ==
    /\ [][CurrentLeavesByItself]_vars
    /\ (\E p \in Pids : Selected(p)) ~> Resumed

\* A forked child is the current process and its thread is not spawned
\* yet, while its parent has still to spawn it.
C40_Witness ==
    \E p \in Pids \ {1} :
       /\ Selected(p)
       /\ pc[p] = "none"
       /\ \E t \in Pids : pc[t] = "spawn" /\ child[t].pid = p
====
